---- MODULE Spec2Model ----
(***************************************************************************)
(* A model of duster: the safety-gated deletion engine (src/src/cleaner.rs *)
(* and the desktop bridge src/duster-ui/src-tauri/src/lib.rs), the scan    *)
(* orchestrator (src/src/analyzer.rs), the duplicate scanner               *)
(* (src/src/scanner/duplicates.rs) and the scan cache                      *)
(* (src/src/scan_cache.rs).                                                *)
(*                                                                         *)
(* Each subsystem has its own specification over the shared variables:     *)
(*   SpecClean   the two deletion entry points                             *)
(*   SpecSelect  scanner selection from the scan options                   *)
(*   SpecScan    run_scan: fan out, merge, deduplicate                     *)
(*   SpecDup     DuplicatesScanner::scan                                   *)
(*   SpecCache   scan_cache::save / load_if_recent                         *)
(* A specification leaves the variables of the other subsystems at their   *)
(* idle values.                                                            *)
(***************************************************************************)
EXTENDS Integers, Sequences, FiniteSets, TLC

VARIABLES
    \* ---- deletion engine -------------------------------------------------
    home,         \* dirs::home_dir(): a path, or NoHome
    pc,           \* "idle" | "cli" (cleaner::delete_files running)
                  \*        | "ui" (the bridge's delete_files running) | "done"
    filter,       \* categories: Option<&[Category]>, NoFilter for None
    seen,         \* number of input items consumed by the running call
    todo,         \* number of input items of the running call
    log,          \* per consumed item: its recorded size and what happened
    result,       \* CleanupResult / UiCleanupResult being accumulated
    last,         \* the input item handled by the latest loop iteration
    \* ---- scan orchestrator ----------------------------------------------
    options,      \* the ScanOptions run_scan is called with
    spc,          \* run_scan's position: "start" | "run" | "merge" | "returned"
    scanners,     \* the Vec of scanners run_scan built (their names)
    scan_results, \* (name, Result<Vec<CleanableFile>>) per scanner, by index
    finished,     \* the scanners whose scan has returned, in completion order
    scan,         \* the ScanResult
    \* ---- duplicate scanner ----------------------------------------------
    fs_files,     \* the entries the walk meets, in discovery order
    dpc,          \* DuplicatesScanner::scan: "start" | "done"
    dup_results,  \* the Vec<CleanableFile> it returns
    \* ---- scan-result cache ----------------------------------------------
    cache_dir,    \* whether dirs::cache_dir() is Some
    cache_file,   \* the content of last_scan.json, NoFile when absent
    clock,        \* the system clock, half seconds since the UNIX epoch
    cpc,          \* save: "idle" | "writing" (inside fs::write)
    pending,      \* the data fs::write is writing
    saves,        \* the number of calls of save
    last_save,    \* the last call of save and what it returned
    loaded,       \* the call of load_if_recent just made and its return
    \* ---- cache keys of two requests -------------------------------------
    requests,     \* two requests: the command line and the config file
    kpc,          \* "start" | "done"
    effective,    \* what each request scans with
    prints,       \* the fingerprint of each request
    \* ---- the commands of main --------------------------------------------
    cmd,          \* the command main has just completed
    \* ---- one filesystem entry before each scanner ------------------------
    entry,        \* the entry a scanner's walk meets
    scan_config,  \* the Config the scan runs with
    emit,         \* the scanner just run and the Vec<CleanableFile> it returned
    \* ---- the large files scanner over a whole walk ------------------------
    large_walk,   \* the files the walk meets, in discovery order, as runs
    large_done,   \* whether LargeFilesScanner::scan has returned
    large_results \* the Vec<CleanableFile> it returned, as runs

cleanVars == <<home, pc, filter, seen, todo, log, result, last>>
scanVars == <<options, spc, scanners, scan_results, finished, scan>>
dupVars == <<fs_files, dpc, dup_results>>

cacheVars ==
    <<cache_dir, cache_file, clock, cpc, pending, saves, last_save, loaded>>

keyVars == <<requests, kpc, effective, prints>>

mainVars == <<cmd>>

entryVars == <<entry, scan_config, emit>>

largeVars == <<large_walk, large_done, large_results>>

vars ==
    <<cleanVars, scanVars, dupVars, cacheVars, keyVars, mainVars, entryVars,
      largeVars>>

\* What the actions of one subsystem leave alone.
nonCleanVars ==
    <<scanVars, dupVars, cacheVars, keyVars, mainVars, entryVars,
      largeVars>>
nonScanVars ==
    <<cleanVars, dupVars, cacheVars, keyVars, mainVars, entryVars,
      largeVars>>
nonDupVars ==
    <<cleanVars, scanVars, cacheVars, keyVars, mainVars, entryVars,
      largeVars>>
nonCacheVars ==
    <<cleanVars, scanVars, dupVars, keyVars, mainVars, entryVars,
      largeVars>>
nonKeyVars ==
    <<cleanVars, scanVars, dupVars, cacheVars, mainVars, entryVars,
      largeVars>>
nonEntryVars ==
    <<cleanVars, scanVars, dupVars, cacheVars, keyVars, mainVars, largeVars>>
nonLargeVars ==
    <<cleanVars, scanVars, dupVars, cacheVars, keyVars, mainVars, entryVars>>

----------------------------------------------------------------------------
(* Paths.  A path is the sequence of its components as std::path yields    *)
(* them; an absolute path starts with the root component "/".              *)

Home == <<"/", "home", "u">>
NoHome == <<"no home">>

\* src/src/cleaner.rs:212
TempRoots == { <<"/", "tmp">>, <<"/", "var", "tmp">>, <<"/", "var", "folders">> }

\* src/src/cleaner.rs:202-204.  "Library/Caches" is compared with a single
\* file name, which never contains a separator.
AllowedHomeChildren == { ".Trash", ".cache", "Library/Caches" }

\* The paths handed to the deletion entry points.
PathUniverse ==
    { <<"/", "etc", "passwd">>,
      <<"/", "home", "u">>,
      <<"/", "home", "u", "Documents">>,
      <<"/", "home", "u", ".cache">>,
      <<"/", "home", "u", ".Trash">>,
      <<"/", "home", "u", "Documents", "a">>,
      <<"/", "tmp">>,
      <<"/", "tmp", "foo">>,
      <<"/", "var", "tmp", "x">>,
      <<"/", "var", "folders", "y">>,
      <<"/", "home", "u", "x", "..", "Documents">>,
      <<"/", "tmp", "..", "etc", "passwd">>,
      <<"tmp", "foo">> }

\* Path::starts_with: whole components only.
StartsWith(path, base) ==
    /\ Len(base) <= Len(path)
    /\ SubSeq(path, 1, Len(base)) = base

NoPath == <<"no path">>

\* Path::parent: the path without its final component; None for the root
\* and for the empty path.
Parent(path) ==
    IF path = <<>> \/ path = <<"/">> THEN NoPath
    ELSE SubSeq(path, 1, Len(path) - 1)

NoName == "no name"

\* Path::file_name: the final component when it is a normal one.
FileName(path) ==
    IF path = <<>> \/ path[Len(path)] \in {"/", "..", "."} THEN NoName
    ELSE path[Len(path)]

UnderTempRoot(path) == \E r \in TempRoots : StartsWith(path, r)

\* A mutation of is_safe_to_delete: the direct-child rule is dropped.
is_safe_to_delete_no_child_rule(path, h) ==
    \/ h # NoHome /\ StartsWith(path, h)
    \/ UnderTempRoot(path)

\* A mutation of is_safe_to_delete: everything is permitted.
is_safe_to_delete_always(path, h) == TRUE

\* src/src/cleaner.rs:192-217
is_safe_to_delete(path, h) ==
    IF h # NoHome /\ StartsWith(path, h)
    THEN IF Parent(path) = h
         THEN FileName(path) \in AllowedHomeChildren
         ELSE TRUE
    ELSE UnderTempRoot(path)

----------------------------------------------------------------------------
(* The deletion engine.                                                    *)

MaxFiles == 2            \* input items per delete_files call

Category ==
    {"Cache", "Trash", "Temp", "Downloads", "BuildArtifact", "LargeFile",
     "Duplicate", "OldFile"}

\* Categories of the items handed to delete_files, and the category filters.
DeleteCategories == {"Cache", "Duplicate"}
NoFilter == <<"no filter">>
Filters == { NoFilter, <<>>, <<"Cache">> }

Sizes == {1, 2}

InFilter(cats, c) == \E i \in 1..Len(cats) : cats[i] = c

NewResult == [deleted_count |-> 0, freed_bytes |-> 0, errors |-> <<>>]

NoItem == [entry |-> "none"]

\* src/src/cleaner.rs:171-178.  Returns "ok", or the error.  fs_ok is
\* whether the filesystem carries out fs::remove_file.
delete_file(path, h, fs_ok) ==
    IF ~is_safe_to_delete(path, h)
    THEN "Refusing to delete path outside home directory"
    ELSE IF fs_ok THEN "ok" ELSE "Failed to delete file"

\* src/src/cleaner.rs:181-189.  fs_ok is whether the filesystem carries out
\* fs::remove_dir_all.
delete_directory(path, h, fs_ok) ==
    IF ~is_safe_to_delete(path, h)
    THEN "Refusing to delete path outside home directory"
    ELSE IF fs_ok THEN "ok" ELSE "Failed to delete directory"

Refusal == "Refusing to delete path outside home directory"

\* A mutation of record_outcome: a refusal leaves no error string.
record_outcome_silent_refusal(res, f, delete_result) ==
    IF delete_result = "ok"
    THEN [res EXCEPT !.deleted_count = @ + 1, !.freed_bytes = @ + f.size]
    ELSE IF delete_result = Refusal THEN res
    ELSE [res EXCEPT !.errors = Append(@, <<f.path, delete_result>>)]

\* src/src/cleaner.rs:152-160: the match on delete_result.
record_outcome(res, f, delete_result) ==
    IF delete_result = "ok"
    THEN [res EXCEPT !.deleted_count = @ + 1, !.freed_bytes = @ + f.size]
    ELSE [res EXCEPT !.errors = Append(@, <<f.path, delete_result>>)]

\* src/src/cleaner.rs:126-143: a call with n input items starts with an
\* empty CleanupResult.
CliBegin(cats, n) ==
    /\ pc \in {"idle", "done"}
    /\ pc' = "cli"
    /\ filter' = cats
    /\ seen' = 0
    /\ todo' = n
    /\ log' = <<>>
    /\ result' = NewResult
    /\ last' = NoItem
    /\ UNCHANGED home
    /\ UNCHANGED nonCleanVars

\* src/src/cleaner.rs:133-137: an item the category filter leaves out is not
\* among files_to_delete.
CliSkipFiltered(f) ==
    /\ pc = "cli"
    /\ seen < todo
    /\ filter # NoFilter /\ ~InFilter(filter, f.category)
    /\ seen' = seen + 1
    /\ log' = Append(log, [size |-> f.size, category |-> f.category,
                           outcome |-> "filtered"])
    /\ last' = [entry |-> "cli", path |-> f.path,
                is_directory |-> f.is_directory, outcome |-> "filtered"]
    /\ UNCHANGED <<home, pc, filter, todo, result>>
    /\ UNCHANGED nonCleanVars

\* src/src/cleaner.rs:145-163: one iteration of the loop over
\* files_to_delete.
CliDeleteNext(f, fs_ok) ==
    /\ pc = "cli"
    /\ seen < todo
    /\ filter = NoFilter \/ InFilter(filter, f.category)
    /\ LET delete_result ==
               IF f.is_directory
               THEN delete_directory(f.path, home, fs_ok)
               ELSE delete_file(f.path, home, fs_ok)
           outcome == IF delete_result = "ok" THEN "removed"
                      ELSE IF delete_result = Refusal
                           THEN "refused" ELSE "failed"
       IN  /\ result' = record_outcome(result, f, delete_result)
           /\ last' = [entry |-> "cli", path |-> f.path,
                       is_directory |-> f.is_directory,
                       outcome |-> outcome]
           /\ log' = Append(log, [size |-> f.size, category |-> f.category,
                                  outcome |-> outcome])
    /\ seen' = seen + 1
    /\ UNCHANGED <<home, pc, filter, todo>>
    /\ UNCHANGED nonCleanVars

\* src/src/cleaner.rs:139-141, 165-167: Ok(result).
CliFinish ==
    /\ pc = "cli"
    /\ seen = todo
    /\ pc' = "done"
    /\ UNCHANGED <<home, filter, seen, todo, log, result, last>>
    /\ UNCHANGED nonCleanVars

\* src/duster-ui/src-tauri/src/lib.rs:199-205
UiBegin(n) ==
    /\ pc \in {"idle", "done"}
    /\ pc' = "ui"
    /\ filter' = NoFilter
    /\ seen' = 0
    /\ todo' = n
    /\ log' = <<>>
    /\ result' = NewResult
    /\ last' = NoItem
    /\ UNCHANGED home
    /\ UNCHANGED nonCleanVars

\* src/duster-ui/src-tauri/src/lib.rs:207-231: one iteration of the loop over
\* the path strings.  is_dir is path.is_dir(), size what calculate_dir_size
\* or metadata().len() gives for the path at this moment, fs_ok whether the
\* filesystem carries out the removal.  recorded is the size field of the
\* CleanableFile the interface listed for the path.
UiDeleteNext(path, is_dir, recorded, size, fs_ok) ==
    /\ pc = "ui"
    /\ seen < todo
    /\ LET ok == fs_ok
       IN  /\ result' =
                 IF ok
                 THEN [result EXCEPT !.deleted_count = @ + 1,
                                     !.freed_bytes = @ + size]
                 ELSE [result EXCEPT
                          !.errors = Append(@, <<path, "io error">>)]
           /\ last' = [entry |-> "ui", path |-> path,
                       is_directory |-> is_dir,
                       outcome |-> IF ok THEN "removed" ELSE "failed"]
           /\ log' = Append(log, [size |-> recorded, category |-> "any",
                                  outcome |-> IF ok THEN "removed"
                                              ELSE "failed"])
    /\ seen' = seen + 1
    /\ UNCHANGED <<home, pc, filter, todo>>
    /\ UNCHANGED nonCleanVars

\* src/duster-ui/src-tauri/src/lib.rs:233-234
UiFinish ==
    /\ pc = "ui"
    /\ seen = todo
    /\ pc' = "done"
    /\ UNCHANGED <<home, filter, seen, todo, log, result, last>>
    /\ UNCHANGED nonCleanVars

\* The size a scan recorded for a path.
RecordedSize(path) == 1 + (Len(path) % 2)

\* The items handed to delete_files.
CleanableFiles ==
    { [path |-> p, size |-> RecordedSize(p), category |-> c,
       is_directory |-> d] :
          p \in PathUniverse, c \in DeleteCategories, d \in BOOLEAN }

IdleClean ==
    /\ home = NoHome
    /\ pc = "idle"
    /\ filter = NoFilter
    /\ seen = 0
    /\ todo = 0
    /\ log = <<>>
    /\ result = NewResult
    /\ last = NoItem

----------------------------------------------------------------------------
(* The scan orchestrator: analyzer::run_scan.                              *)

\* src/src/cli.rs:143-152
ScanCategory ==
    {"Cache", "Trash", "Temp", "Downloads", "Build", "Large", "Duplicates",
     "Old"}

\* src/src/cli.rs:32-67: the flags of ScanOptions that select scanners.
AllScanOptions ==
    [all : BOOLEAN, cache : BOOLEAN, trash : BOOLEAN, temp : BOOLEAN,
     downloads : BOOLEAN, build : BOOLEAN, large : BOOLEAN,
     duplicates : BOOLEAN, old : BOOLEAN]

NoFlags ==
    [all |-> FALSE, cache |-> FALSE, trash |-> FALSE, temp |-> FALSE,
     downloads |-> FALSE, build |-> FALSE, large |-> FALSE,
     duplicates |-> FALSE, old |-> FALSE]

\* src/src/cli.rs:112-121
no_categories_selected(o) ==
    /\ ~o.cache /\ ~o.trash /\ ~o.temp /\ ~o.downloads
    /\ ~o.build /\ ~o.large /\ ~o.duplicates /\ ~o.old

\* A mutation of should_scan: the "all" flag is ignored when a category flag
\* is set.
should_scan_ignores_all(o, category) ==
    IF no_categories_selected(o) THEN TRUE
    ELSE CASE category = "Cache" -> o.cache
           [] category = "Trash" -> o.trash
           [] category = "Temp" -> o.temp
           [] category = "Downloads" -> o.downloads
           [] category = "Build" -> o.build
           [] category = "Large" -> o.large
           [] category = "Duplicates" -> o.duplicates
           [] category = "Old" -> o.old

\* src/src/cli.rs:124-139
should_scan(o, category) ==
    IF o.all \/ no_categories_selected(o) THEN TRUE
    ELSE CASE category = "Cache" -> o.cache
           [] category = "Trash" -> o.trash
           [] category = "Temp" -> o.temp
           [] category = "Downloads" -> o.downloads
           [] category = "Build" -> o.build
           [] category = "Large" -> o.large
           [] category = "Duplicates" -> o.duplicates
           [] category = "Old" -> o.old

When(cond, names) == IF cond THEN names ELSE <<>>

\* src/src/analyzer.rs:25-60: the scanners, in the order they are pushed.
ScannersFor(o) ==
    When(should_scan(o, "Cache"), <<"Cache Scanner", "Known Cache Scanner">>)
    \o When(should_scan(o, "Trash"), <<"Trash Scanner">>)
    \o When(should_scan(o, "Temp"), <<"Temp Scanner">>)
    \o When(should_scan(o, "Downloads"), <<"Downloads Scanner">>)
    \o When(should_scan(o, "Build"),
            <<"Build Artifacts Scanner", "Global Cache Scanner">>)
    \o When(should_scan(o, "Large"), <<"Large Files Scanner">>)
    \o When(should_scan(o, "Duplicates"), <<"Duplicates Scanner">>)
    \o When(should_scan(o, "Old"), <<"Old Files Scanner">>)

\* The category each scanner gives the files it reports
\* (cache.rs:101,209; trash.rs:90; temp.rs:126; downloads.rs:100;
\* build_artifacts.rs:245,326; large_files.rs:160; duplicates.rs:187;
\* old_files.rs:159).
ScannerCategory(name) ==
    CASE name \in {"Cache Scanner", "Known Cache Scanner"} -> "Cache"
      [] name = "Trash Scanner" -> "Trash"
      [] name = "Temp Scanner" -> "Temp"
      [] name = "Downloads Scanner" -> "Downloads"
      [] name \in {"Build Artifacts Scanner", "Global Cache Scanner"}
             -> "BuildArtifact"
      [] name = "Large Files Scanner" -> "LargeFile"
      [] name = "Duplicates Scanner" -> "Duplicate"
      [] name = "Old Files Scanner" -> "OldFile"

MaxFound == 2     \* files reported by all scanners of one run together
MaxFailed == 1    \* scanners of one run that return an error

\* The paths the scanners report.
ScanPaths ==
    { <<"/", "home", "u", ".cache", "pip">>,
      <<"/", "home", "u", "proj", "target">> }

\* The size of what is on disk at a path.
SizeOnDisk(path) == IF path[Len(path)] = "pip" THEN 2 ELSE 1

\* The CleanableFiles scanner `name` can report: the size on disk, its own
\* category, and a reason of its own.
FilesOf(name) ==
    { [path |-> p, size |-> SizeOnDisk(p), category |-> ScannerCategory(name),
       reason |-> name] : p \in ScanPaths }

SeqsUpTo(S, n) == UNION { [1..k -> S] : k \in 0..n }

ScanError == "walk failed"

\* What Scanner::scan of scanner `name` can return: Ok(files) with at most
\* `found` files, or an error when `failed` allows one.
Outcomes(name, found, failed) ==
    { [ok |-> TRUE, files |-> fs, error |-> ""] :
          fs \in SeqsUpTo(FilesOf(name), found) }
    \cup (IF failed > 0
          THEN {[ok |-> FALSE, files |-> <<>>, error |-> ScanError]}
          ELSE {})

RECURSIVE FoundIn(_)
FoundIn(rs) ==
    IF rs = <<>> THEN 0 ELSE Len(Head(rs).result.files) + FoundIn(Tail(rs))

RECURSIVE FailedIn(_)
FailedIn(rs) ==
    IF rs = <<>> THEN 0
    ELSE (IF Head(rs).result.ok THEN 0 ELSE 1) + FailedIn(Tail(rs))

NoOptions == [all |-> FALSE]
NoScan == [files |-> <<>>, errors |-> <<>>]

\* A mutation of Aggregate: the first scanner error ends the aggregation, as
\* propagating it with `?` would.
RECURSIVE AggregateUntilError(_, _)
AggregateUntilError(rs, acc) ==
    IF rs = <<>> THEN acc
    ELSE LET r == Head(rs)
         IN  IF r.result.ok
             THEN AggregateUntilError(Tail(rs),
                      [acc EXCEPT !.files = @ \o r.result.files])
             ELSE [acc EXCEPT !.errors = Append(@, <<r.name, r.result.error>>)]

\* src/src/analyzer.rs:76-85: files of the successful scanners appended in
\* scanner order, one labelled error per failed scanner.
RECURSIVE Aggregate(_, _)
Aggregate(rs, acc) ==
    IF rs = <<>> THEN acc
    ELSE LET r == Head(rs)
         IN  Aggregate(Tail(rs),
                 IF r.result.ok
                 THEN [acc EXCEPT !.files = @ \o r.result.files]
                 ELSE [acc EXCEPT
                          !.errors = Append(@, <<r.name, r.result.error>>)])

\* A mutation of Retain: the last entry of a path is kept instead of the
\* first.
RECURSIVE RetainLast(_, _)
RetainLast(files, seen_paths) ==
    IF files = <<>> THEN <<>>
    ELSE LET n == Len(files)
             f == files[n]
             front == SubSeq(files, 1, n - 1)
         IN  IF f.path \in seen_paths
             THEN RetainLast(front, seen_paths)
             ELSE Append(RetainLast(front, seen_paths \cup {f.path}), f)

\* A mutation of Retain: nothing is dropped.
RetainAll(files, seen_paths) == files

\* src/src/analyzer.rs:90-91: files.retain(|f| seen_paths.insert(f.path)).
RECURSIVE Retain(_, _)
Retain(files, seen_paths) ==
    IF files = <<>> THEN <<>>
    ELSE LET f == Head(files)
         IN  IF f.path \in seen_paths
             THEN Retain(Tail(files), seen_paths)
             ELSE <<f>> \o Retain(Tail(files), seen_paths \cup {f.path})

\* src/src/analyzer.rs:24-60
BuildScanners ==
    /\ spc = "start"
    /\ spc' = "run"
    /\ scanners' = ScannersFor(options)
    /\ scan_results' = <<>>
    /\ finished' = <<>>
    /\ scan' = NoScan
    /\ UNCHANGED options
    /\ UNCHANGED nonScanVars

\* src/src/analyzer.rs:66-73: one scanner's scan(config) returns; its
\* (name, result) pair goes to the scanner's place in scan_results.
ScannerReturns(out) ==
    /\ spc = "run"
    /\ Len(scan_results) < Len(scanners)
    /\ scan_results' =
           Append(scan_results,
                  [name |-> scanners[Len(scan_results) + 1], result |-> out])
    /\ UNCHANGED <<options, spc, scanners, finished, scan>>
    /\ UNCHANGED nonScanVars

\* src/src/analyzer.rs:76-93: aggregate, deduplicate by path, Ok(result).
AggregateAndReturn ==
    /\ spc = "run"
    /\ Len(scan_results) = Len(scanners)
    /\ LET merged == Aggregate(scan_results, NoScan)
       IN  scan' = [merged EXCEPT !.files = Retain(@, {})]
    /\ spc' = "returned"
    /\ UNCHANGED <<options, scanners, scan_results, finished>>
    /\ UNCHANGED nonScanVars

\* src/src/analyzer.rs:66-72: the scanners run on the rayon pool, so the scan
\* of any scanner that has not returned yet may be the next to return; `i` is
\* the scanner's index in the Vec.
ScannerFinishes(i, out) ==
    /\ spc = "run"
    /\ i \in 1..Len(scanners)
    /\ \A k \in 1..Len(finished) : finished[k].index # i
    /\ scan_results = <<>>
    /\ finished' = Append(finished, [index |-> i, result |-> out])
    /\ UNCHANGED <<options, spc, scanners, scan_results, scan>>
    /\ UNCHANGED nonScanVars

\* A mutation of collect: the pairs are gathered in the order in which the
\* scans returned.
collect_in_completion_order(names, done) ==
    [k \in 1..Len(done) |->
        [name |-> names[done[k].index], result |-> done[k].result]]

\* src/src/analyzer.rs:66-73: par_iter() over a Vec is an indexed parallel
\* iterator and collect() into a Vec writes the item of index i to place i.
collect(names, done) ==
    [i \in 1..Len(names) |->
        [name |-> names[i],
         result |-> done[CHOOSE k \in 1..Len(done) : done[k].index = i].result]]

\* src/src/analyzer.rs:73: collect() returns once every scan has returned.
Collect ==
    /\ spc = "run"
    /\ scanners # <<>>
    /\ scan_results = <<>>
    /\ Len(finished) = Len(scanners)
    /\ scan_results' = collect(scanners, finished)
    /\ UNCHANGED <<options, spc, scanners, finished, scan>>
    /\ UNCHANGED nonScanVars

IdleScan ==
    /\ options = NoOptions
    /\ spc = "idle"
    /\ scanners = <<>>
    /\ scan_results = <<>>
    /\ finished = <<>>
    /\ scan = NoScan

----------------------------------------------------------------------------
(* The duplicate scanner: DuplicatesScanner::scan.                         *)
(*                                                                         *)
(* An entry of the walk is a record                                        *)
(*   kind     "ok": a regular file the walk reaches and can stat;          *)
(*            "skipdir": below a directory should_skip_dir names;          *)
(*            "notfile": a directory or symlink; "excluded": a path        *)
(*            config.is_excluded matches; "hidden": a dot file;            *)
(*            "nometa": the entry or its metadata cannot be read           *)
(*   content  the file's bytes, which fix its size                         *)
(*   atime    what get_last_accessed returns for it, NoTime for None       *)
(*   hashable whether hash_file can open and read it                       *)
(* and its path is its index in fs_files.  Content hashes are taken to be  *)
(* free of collisions.                                                     *)

MaxDupFiles == 3         \* entries the walk meets

\* src/src/scanner/duplicates.rs:78
MinDupSize == 1048576

Contents == {"A", "B", "small"}

\* "A" and "B" are different contents of the same size.
ContentSize(c) == IF c = "small" THEN MinDupSize - 1 ELSE MinDupSize

NoTime == 0
\* Utc::now() while the scan runs: later than every access time on disk.
Now == 3
AccessTimes == {1, 2}

WalkEntries ==
    [kind : {"ok"}, content : {"A", "B"}, atime : AccessTimes \cup {NoTime},
     hashable : BOOLEAN]
    \cup [kind : {"ok"}, content : {"small"}, atime : {1}, hashable : {TRUE}]
    \cup [kind : {"skipdir", "notfile", "excluded", "hidden", "nometa"},
          content : {"A"}, atime : {1}, hashable : {TRUE}]

NoHash == <<"no hash">>

\* A mutation of hash_file: the hash depends on the length of the content
\* only.
hash_file_of_length(f) ==
    IF f.hashable THEN <<"blake3", ContentSize(f.content)>> ELSE NoHash

\* A mutation of hash_file: a file that cannot be read hashes as the empty
\* input.
hash_file_empty_on_error(f) ==
    IF f.hashable THEN <<"blake3", f.content>> ELSE <<"blake3", "">>

\* src/src/scanner/duplicates.rs:43-60
hash_file(f) ==
    IF f.hashable THEN <<"blake3", f.content>> ELSE NoHash

Indices(files) == [i \in 1..Len(files) |-> i]

\* src/src/scanner/duplicates.rs:83-122: the entries that reach size_groups.
Collected(files, i) ==
    /\ files[i].kind = "ok"
    /\ ~(ContentSize(files[i].content) < MinDupSize)

\* src/src/scanner/duplicates.rs:124-127: the bucket of one size, in
\* discovery order.
SizeGroup(files, size) ==
    SelectSeq(Indices(files),
              LAMBDA i : Collected(files, i)
                         /\ ContentSize(files[i].content) = size)

\* src/src/scanner/duplicates.rs:131-134: the sizes with more than one file.
PotentialSizes(files) ==
    { size \in { ContentSize(c) : c \in Contents } :
          Len(SizeGroup(files, size)) > 1 }

\* src/src/scanner/duplicates.rs:137-148: the files of the potential
\* duplicates, bucket after bucket in the order the size map yields them.
RECURSIVE HashResults(_, _)
HashResults(files, size_order) ==
    IF size_order = <<>> THEN <<>>
    ELSE SizeGroup(files, Head(size_order))
         \o HashResults(files, Tail(size_order))

\* src/src/scanner/duplicates.rs:151-157: the group of one hash, in the
\* order of hash_results; files without a hash join no group.
HashGroup(files, hash_results, h) ==
    SelectSeq(hash_results, LAMBDA i : hash_file(files[i]) = h)

GroupHashes(files, hash_results) ==
    { hash_file(files[hash_results[k]]) : k \in 1..Len(hash_results) }
        \ {NoHash}

\* src/src/scanner/duplicates.rs:169-170, 182:
\* get_last_accessed(path).unwrap_or_else(Utc::now)
TimeOf(f) == IF f.atime = NoTime THEN Now ELSE f.atime

\* A mutation of InsertByTime: i goes before the files of its own time.
RECURSIVE InsertByTimeBeforeEquals(_, _, _)
InsertByTimeBeforeEquals(files, sorted, i) ==
    IF sorted = <<>> THEN <<i>>
    ELSE IF files[Head(sorted)].atime < files[i].atime
         THEN <<Head(sorted)>>
              \o InsertByTimeBeforeEquals(files, Tail(sorted), i)
         ELSE <<i>> \o sorted

\* Stable insertion of i into a sequence sorted by access time.
RECURSIVE InsertByTime(_, _, _)
InsertByTime(files, sorted, i) ==
    IF sorted = <<>> THEN <<i>>
    ELSE IF files[Head(sorted)].atime <= files[i].atime
         THEN <<Head(sorted)>> \o InsertByTime(files, Tail(sorted), i)
         ELSE <<i>> \o sorted

RECURSIVE SortByTime(_, _)
SortByTime(files, group) ==
    IF group = <<>> THEN <<>>
    ELSE InsertByTime(files,
                      SortByTime(files, SubSeq(group, 1, Len(group) - 1)),
                      group[Len(group)])

\* A mutation of SortGroup: newest first.
RECURSIVE Reverse(_)
Reverse(q) == IF q = <<>> THEN <<>> ELSE Append(Reverse(Tail(q)), Head(q))

SortGroupNewestFirst(files, group, none_order) ==
    Reverse(SortByTime(files,
                SelectSeq(group, LAMBDA i : files[i].atime # NoTime)))
    \o SelectSeq(none_order, LAMBDA i : \E k \in 1..Len(group) : group[k] = i)

\* src/src/scanner/duplicates.rs:168-172: files.sort_by on the access time,
\* a stable sort.  A file whose access time cannot be read is compared as
\* Utc::now(), read anew at every comparison: it sorts after the files with
\* a time on disk, and among themselves such files end up in an order the
\* code does not fix, none_order.
SortGroup(files, group, none_order) ==
    SortByTime(files, SelectSeq(group, LAMBDA i : files[i].atime # NoTime))
    \o SelectSeq(none_order, LAMBDA i : \E k \in 1..Len(group) : group[k] = i)

\* src/src/scanner/duplicates.rs:181-192: every file of the sorted group but
\* the first becomes a CleanableFile.
DuplicatesOf(files, sorted) ==
    [k \in 1..(Len(sorted) - 1) |->
        [path |-> sorted[k + 1],
         size |-> ContentSize(files[sorted[k + 1]].content),
         category |-> "Duplicate",
         last_accessed |-> TimeOf(files[sorted[k + 1]]),
         reason |-> <<"Duplicate of: ", sorted[1]>>,
         is_directory |-> FALSE]]

\* src/src/scanner/duplicates.rs:160-193: the groups in the order the hash
\* map yields them; a group of one is passed over.
RECURSIVE GroupResults(_, _, _, _)
GroupResults(files, hash_results, hash_order, none_order) ==
    IF hash_order = <<>> THEN <<>>
    ELSE LET group == HashGroup(files, hash_results, Head(hash_order))
             rest == GroupResults(files, hash_results, Tail(hash_order),
                                  none_order)
         IN  IF Len(group) < 2 THEN rest
             ELSE DuplicatesOf(files, SortGroup(files, group, none_order))
                  \o rest

\* Stable insertion of f into a sequence sorted by size, largest first.
RECURSIVE InsertBySize(_, _)
InsertBySize(sorted, f) ==
    IF sorted = <<>> THEN <<f>>
    ELSE IF Head(sorted).size >= f.size
         THEN <<Head(sorted)>> \o InsertBySize(Tail(sorted), f)
         ELSE <<f>> \o sorted

\* src/src/scanner/duplicates.rs:196
RECURSIVE SortBySizeDesc(_)
SortBySizeDesc(results) ==
    IF results = <<>> THEN <<>>
    ELSE InsertBySize(SortBySizeDesc(SubSeq(results, 1, Len(results) - 1)),
                      results[Len(results)])

\* The orderings of a finite set.
Orderings(S) ==
    { q \in [1..Cardinality(S) -> S] :
          \A i, j \in 1..Cardinality(S) : i # j => q[i] # q[j] }

NoTimeFiles(files) ==
    { i \in 1..Len(files) : Collected(files, i) /\ files[i].atime = NoTime }

\* src/src/scanner/duplicates.rs:74-199.  size_order and hash_order are the
\* iteration orders of the two hash maps, none_order the order the sort
\* leaves the files without an access time in.
DupScan(size_order, hash_order, none_order) ==
    /\ dpc = "start"
    /\ dpc' = "done"
    /\ LET hash_results == HashResults(fs_files, size_order)
       IN  dup_results' =
               SortBySizeDesc(GroupResults(fs_files, hash_results, hash_order,
                                           none_order))
    /\ UNCHANGED fs_files
    /\ UNCHANGED nonDupVars

IdleDup ==
    /\ fs_files = <<>>
    /\ dpc = "idle"
    /\ dup_results = <<>>

----------------------------------------------------------------------------
(* The scan-result cache: scan_cache.rs.                                   *)
(*                                                                         *)
(* A JSON document is the tuple of the values serde writes, in the order   *)
(* of the fields of the structs; a path is a record of its name and of     *)
(* whether it is valid UTF-8, which serde requires of a PathBuf.           *)

MaxSaves == 2            \* calls of save
MaxDrift == 1            \* half seconds the clock advances in single steps

\* src/src/scan_cache.rs:11
CACHE_MAX_AGE_SECS == 300

NoNum == <<"None">>
SomeNum(n) == <<"Some", n>>
NoPathOpt == <<"None">>

BaseOptions ==
    [path |-> NoPathOpt, all |-> FALSE, cache |-> TRUE, trash |-> FALSE,
     temp |-> FALSE, downloads |-> FALSE, build |-> FALSE, large |-> FALSE,
     duplicates |-> FALSE, old |-> FALSE, min_age |-> NoNum,
     min_size |-> NoNum, project_age |-> NoNum,
     exclude |-> <<"*.log", "tmp">>]

CacheOptionsUniverse ==
    { BaseOptions,
      [BaseOptions EXCEPT !.exclude = <<"tmp", "*.log">>],
      [BaseOptions EXCEPT !.path = <<"Some", "/data">>,
                          !.min_age = SomeNum(30)] }

\* The exclusion patterns in the order of String's Ord.
Patterns == <<"*.log", "tmp">>
RankOf(p) == CHOOSE k \in 1..Len(Patterns) : Patterns[k] = p

RECURSIVE InsertPattern(_, _)
InsertPattern(sorted, p) ==
    IF sorted = <<>> THEN <<p>>
    ELSE IF RankOf(Head(sorted)) <= RankOf(p)
         THEN <<Head(sorted)>> \o InsertPattern(Tail(sorted), p)
         ELSE <<p>> \o sorted

\* A mutation of SortPatterns: the patterns stay in the order given.
SortPatternsKeepsOrder(q) == q

\* src/src/scan_cache.rs:27-28: exclude.sort()
RECURSIVE SortPatterns(_)
SortPatterns(q) ==
    IF q = <<>> THEN <<>>
    ELSE InsertPattern(SortPatterns(SubSeq(q, 1, Len(q) - 1)), q[Len(q)])

\* src/src/scan_cache.rs:21-46
options_fingerprint(o) ==
    <<IF o.path = NoPathOpt THEN "" ELSE o.path[2],
      o.all, o.cache, o.trash, o.temp, o.downloads, o.build, o.large,
      o.duplicates, o.old, o.min_age, o.min_size, o.project_age,
      SortPatterns(o.exclude)>>

CacheFileA ==
    [path |-> [name |-> "/home/u/.cache/pip", utf8 |-> TRUE], size |-> 2,
     category |-> "Cache", last_accessed |-> 1, reason |-> "pip cache",
     is_directory |-> TRUE]

CacheFileB ==
    [path |-> [name |-> "/home/u/proj/target", utf8 |-> TRUE], size |-> 1,
     category |-> "BuildArtifact", last_accessed |-> 2,
     reason |-> "Rust build", is_directory |-> TRUE]

CacheFileRaw ==
    [CacheFileB EXCEPT !.path = [name |-> "/home/u/\\xff", utf8 |-> FALSE]]

\* The results save is called with.
CacheResults ==
    { [files |-> <<CacheFileB, CacheFileA>>, errors |-> <<"Trash: denied">>],
      [files |-> <<CacheFileRaw>>, errors |-> <<>>] }

NoFile == <<"no file">>
Unreadable == <<"unreadable">>
Garbage == <<"not json">>
Truncated == <<"">>
NoJson == <<"serialize error">>
NoEnvelope == [timestamp_secs |-> 0, options_key |-> <<"none">>,
               result |-> NoScan, parsed |-> FALSE]
NoResult == [none |-> TRUE]

FileToJson(f) ==
    <<f.path.name, f.size, f.category, f.last_accessed, f.reason,
      f.is_directory>>

FileFromJson(t) ==
    [path |-> [name |-> t[1], utf8 |-> TRUE], size |-> t[2],
     category |-> t[3], last_accessed |-> t[4], reason |-> t[5],
     is_directory |-> t[6]]

\* src/src/scan_cache.rs:75: serde_json::to_string_pretty(&envelope)
to_string_pretty(envelope) ==
    IF \E k \in 1..Len(envelope.result.files) :
           ~envelope.result.files[k].path.utf8
    THEN NoJson
    ELSE <<"json", envelope.timestamp_secs, envelope.options_key,
           [k \in 1..Len(envelope.result.files) |->
               FileToJson(envelope.result.files[k])],
           envelope.result.errors>>

\* A mutation of from_str: the errors of the result are not read back.
from_str_without_errors(data) ==
    IF data[1] = "json"
    THEN [timestamp_secs |-> data[2], options_key |-> data[3],
          result |-> [files |-> [k \in 1..Len(data[4]) |->
                                    FileFromJson(data[4][k])],
                      errors |-> <<>>],
          parsed |-> TRUE]
    ELSE NoEnvelope

\* src/src/scan_cache.rs:85: serde_json::from_str(&data)
from_str(data) ==
    IF data[1] = "json"
    THEN [timestamp_secs |-> data[2], options_key |-> data[3],
          result |-> [files |-> [k \in 1..Len(data[4]) |->
                                    FileFromJson(data[4][k])],
                      errors |-> data[5]],
          parsed |-> TRUE]
    ELSE NoEnvelope

\* SystemTime::now().duration_since(UNIX_EPOCH) is an error before the
\* epoch; as_secs drops the fraction of a second.
BeforeEpoch(t) == t < 0
as_secs(t) == t \div 2

NoSave == [entry |-> "none"]
NoLoad == [entry |-> "none"]

SaveReturns(r, o, ret, wrote) ==
    last_save' = [entry |-> "save", result |-> r, options |-> o, ret |-> ret,
                  wrote |-> wrote, at |-> clock]

\* src/src/scan_cache.rs:53-76, up to the point where fs::write has opened
\* and truncated the file.  fs_ok is whether create_dir_all and the opening
\* of the file succeed.
SaveBegin(r, o, fs_ok) ==
    /\ cpc = "idle"
    /\ saves < MaxSaves
    /\ saves' = saves + 1
    /\ loaded' = NoLoad
    /\ LET timestamp_secs == IF BeforeEpoch(clock) THEN 0 ELSE as_secs(clock)
           envelope == [timestamp_secs |-> timestamp_secs,
                        options_key |-> options_fingerprint(o),
                        result |-> r]
           data == to_string_pretty(envelope)
       IN  IF ~cache_dir
           THEN /\ SaveReturns(r, o, "Ok", FALSE)
                /\ UNCHANGED <<cache_file, cpc, pending>>
           ELSE IF ~fs_ok \/ data = NoJson
           THEN /\ SaveReturns(r, o, "Err", FALSE)
                /\ UNCHANGED <<cache_file, cpc, pending>>
           ELSE /\ cache_file' = Truncated
                /\ cpc' = "writing"
                /\ pending' = data
                /\ last_save' = [entry |-> "save", result |-> r,
                                 options |-> o, ret |-> "running",
                                 wrote |-> FALSE, at |-> clock]
    /\ UNCHANGED <<cache_dir, clock>>
    /\ UNCHANGED nonCacheVars

\* src/src/scan_cache.rs:76-78: fs::write writes the data and save returns.
SaveWrite(write_ok) ==
    /\ cpc = "writing"
    /\ cpc' = "idle"
    /\ pending' = <<>>
    /\ loaded' = NoLoad
    /\ IF write_ok
       THEN /\ cache_file' = pending
            /\ last_save' = [last_save EXCEPT !.ret = "Ok", !.wrote = TRUE]
       ELSE /\ cache_file' = cache_file
            /\ last_save' = [last_save EXCEPT !.ret = "Err"]
    /\ UNCHANGED <<cache_dir, clock, saves>>
    /\ UNCHANGED nonCacheVars

\* A mutation of load_if_recent_result: the age is not looked at.
load_if_recent_any_age(o, max_age_secs) ==
    LET envelope == from_str(cache_file)
    IN  IF ~cache_dir \/ cache_file \in {NoFile, Unreadable}
           \/ ~envelope.parsed \/ BeforeEpoch(clock)
        THEN NoResult
        ELSE IF envelope.options_key # options_fingerprint(o) THEN NoResult
        ELSE envelope.result

\* A mutation of load_if_recent_result: a file that cannot be read or parsed
\* counts as an empty result.
load_if_recent_or_default(o, max_age_secs) ==
    LET envelope == from_str(cache_file)
        now_secs == as_secs(clock)
        age_secs == IF now_secs >= envelope.timestamp_secs
                    THEN now_secs - envelope.timestamp_secs
                    ELSE 0
    IN  IF ~cache_dir \/ BeforeEpoch(clock) THEN NoResult
        ELSE IF cache_file \in {NoFile, Unreadable} \/ ~envelope.parsed
        THEN NoScan
        ELSE IF age_secs > max_age_secs THEN NoResult
        ELSE IF envelope.options_key # options_fingerprint(o) THEN NoResult
        ELSE envelope.result

\* src/src/scan_cache.rs:82-101: what load_if_recent returns.
load_if_recent_result(o, max_age_secs) ==
    LET envelope == from_str(cache_file)
        now_secs == as_secs(clock)
        age_secs == IF now_secs >= envelope.timestamp_secs
                    THEN now_secs - envelope.timestamp_secs
                    ELSE 0
    IN  IF ~cache_dir \/ cache_file \in {NoFile, Unreadable}
           \/ ~envelope.parsed \/ BeforeEpoch(clock)
        THEN NoResult
        ELSE IF age_secs > max_age_secs THEN NoResult
        ELSE IF envelope.options_key # options_fingerprint(o) THEN NoResult
        ELSE envelope.result

\* src/src/scan_cache.rs:82-106
load_if_recent(o, max_age_secs) ==
    /\ loaded' = [entry |-> "load", options |-> o,
                  max_age_secs |-> max_age_secs,
                  ret |-> load_if_recent_result(o, max_age_secs),
                  at |-> clock, during_save |-> (cpc = "writing")]
    /\ UNCHANGED <<cache_dir, cache_file, clock, cpc, pending, saves,
                   last_save>>
    /\ UNCHANGED nonCacheVars

\* Time passes: half a second, or the default freshness window.
ClockSteps == {1, 2 * CACHE_MAX_AGE_SECS}

\* The readings of the clock that are looked at: up to MaxDrift half
\* seconds after the epoch, and as many after the default window.
ClockReadings ==
    { t \in 0..(2 * CACHE_MAX_AGE_SECS + MaxDrift) :
          t % (2 * CACHE_MAX_AGE_SECS) <= MaxDrift }

Tick(d) ==
    /\ clock + d \in ClockReadings
    /\ clock' = clock + d
    /\ loaded' = NoLoad
    /\ UNCHANGED <<cache_dir, cache_file, cpc, pending, saves, last_save>>
    /\ UNCHANGED nonCacheVars

MaxAges == {0, CACHE_MAX_AGE_SECS}

IdleCache ==
    /\ cache_dir = TRUE
    /\ cache_file = NoFile
    /\ clock = 0
    /\ cpc = "idle"
    /\ pending = <<>>
    /\ saves = 0
    /\ last_save = NoSave
    /\ loaded = NoLoad

----------------------------------------------------------------------------
(* The cache key of a request.  A request is the command line (ScanOptions) *)
(* and the configuration file Config::load reads; main applies the command  *)
(* line to the configuration and scans with the outcome.  A size given on   *)
(* the command line is a number and a unit suffix.                          *)

SizeText(n, unit) == <<"Some", [num |-> n, unit |-> unit]>>

\* src/src/config.rs:175-200: the size in megabytes, NoNum when the text
\* does not parse.
parse_size_mb(s) ==
    IF s.unit \in {"GB", "G"} THEN SomeNum(s.num * 1024)
    ELSE IF s.unit \in {"MB", "M", ""} THEN SomeNum(s.num)
    ELSE IF s.unit \in {"KB", "K"} THEN SomeNum(s.num \div 1024)
    ELSE NoNum

\* src/src/config.rs:58-69
DefaultConfig ==
    [min_age_days |-> 30, min_large_size_mb |-> 100,
     project_recent_days |-> 14, download_age_days |-> 30,
     excluded_paths |-> <<>>, cache_paths |-> <<>>, base_path |-> NoPathOpt]

\* The configuration files a request is made with.
ConfigFiles ==
    { DefaultConfig,
      [DefaultConfig EXCEPT !.download_age_days = 7],
      [DefaultConfig EXCEPT !.min_age_days = 60],
      [DefaultConfig EXCEPT !.excluded_paths = <<"tmp">>] }

\* The command lines a request is made with.
KeyOptionsUniverse ==
    { BaseOptions,
      [BaseOptions EXCEPT !.exclude = <<"tmp", "*.log">>],
      [BaseOptions EXCEPT !.exclude = <<"tmp">>],
      [BaseOptions EXCEPT !.path = <<"Some", "/data">>],
      [BaseOptions EXCEPT !.all = TRUE],
      [BaseOptions EXCEPT !.cache = FALSE],
      [BaseOptions EXCEPT !.min_age = SomeNum(30)],
      [BaseOptions EXCEPT !.min_age = SomeNum(60)],
      [BaseOptions EXCEPT !.min_size = SizeText(100, "MB")],
      [BaseOptions EXCEPT !.min_size = SizeText(1, "GB")],
      [BaseOptions EXCEPT !.min_size = SizeText(1, "x")],
      [BaseOptions EXCEPT !.project_age = SomeNum(7)] }

Contains(q, x) == \E k \in 1..Len(q) : q[k] = x

\* src/src/config.rs:135-140: the exclusions of the command line are added
\* to those of the file, unless already there.
RECURSIVE AddExclusions(_, _)
AddExclusions(excluded_paths, exclude) ==
    IF exclude = <<>> THEN excluded_paths
    ELSE AddExclusions(IF Contains(excluded_paths, Head(exclude))
                       THEN excluded_paths
                       ELSE Append(excluded_paths, Head(exclude)),
                       Tail(exclude))

\* src/src/config.rs:116-141
apply_cli_options(config, o) ==
    [config EXCEPT
        !.min_age_days =
            IF o.min_age # NoNum THEN o.min_age[2] ELSE @,
        !.min_large_size_mb =
            IF o.min_size # NoNum /\ parse_size_mb(o.min_size[2]) # NoNum
            THEN parse_size_mb(o.min_size[2])[2] ELSE @,
        !.project_recent_days =
            IF o.project_age # NoNum THEN o.project_age[2] ELSE @,
        !.base_path = IF o.path # NoPathOpt THEN o.path ELSE @,
        !.excluded_paths = AddExclusions(@, o.exclude)]

\* src/src/main.rs:25-33 and src/src/analyzer.rs:23-60: the configuration
\* and the scanners one request scans with.
EffectiveInputs(req) ==
    [config |-> apply_cli_options(req.file, req.options),
     scanners |-> ScannersFor(req.options)]

\* src/src/scan_cache.rs:21-46 for the two requests: save computes the key
\* of one, load_if_recent that of the other.
ComputeKeys ==
    /\ kpc = "start"
    /\ kpc' = "done"
    /\ effective' = [i \in 1..2 |-> EffectiveInputs(requests[i])]
    /\ prints' = [i \in 1..2 |-> options_fingerprint(requests[i].options)]
    /\ UNCHANGED requests
    /\ UNCHANGED nonKeyVars

IdleKey ==
    /\ requests = <<>>
    /\ kpc = "idle"
    /\ effective = <<>>
    /\ prints = <<>>

----------------------------------------------------------------------------
(* The commands of main: scan and clean.  What run_scan finds is an input; *)
(* the cache file, the cache directory and the clock are those of the      *)
(* scan-result cache.                                                      *)

NoCommand == [command |-> "none"]

\* What run_scan returns to main.
MainResults ==
    { NoScan,
      [files |-> <<CacheFileA>>, errors |-> <<>>],
      [files |-> <<CacheFileB, CacheFileA>>, errors |-> <<"Trash: denied">>] }

\* src/src/main.rs:29-46: Command::Scan applies the command line to the
\* configuration, runs the scan and prints the report.
ScanCommand(o, r) ==
    /\ cmd' = [command |-> "scan", options |-> o, result |-> r,
               exit |-> "Ok", walked |-> TRUE, at |-> clock]
    /\ UNCHANGED cacheVars
    /\ UNCHANGED <<cleanVars, scanVars, dupVars, keyVars, entryVars,
                   largeVars>>

\* What the operator does at the prompt: Confirm::interact() returns
\* Ok(true), Ok(false), or an error (no terminal, closed input).
Answers == {"yes", "no", "error"}

\* A variant of confirm in which a failed prompt counts as yes.
confirm_or_true(answer) == answer # "no"

\* src/src/ui.rs:81-87: interact().unwrap_or(false)
confirm(answer) == IF answer = "error" THEN FALSE ELSE answer = "yes"

\* src/src/main.rs:48-79: Command::Clean runs the scan, returns when it
\* found nothing, previews, asks unless --yes was given, and calls
\* delete_files on yes.  asked is whether the prompt was shown, deleted
\* whether delete_files was called.
CleanCommand(o, r, yes, answer) ==
    /\ LET found == r.files # <<>>
           asked == found /\ ~yes
           should_delete == IF yes THEN TRUE ELSE confirm(answer)
       IN  cmd' = [command |-> "clean", options |-> o, result |-> r,
                   exit |-> "Ok", walked |-> TRUE, at |-> clock,
                   yes |-> yes, asked |-> asked,
                   answer |-> IF asked THEN answer ELSE "none",
                   deleted |-> (found /\ should_delete)]
    /\ UNCHANGED cacheVars
    /\ UNCHANGED <<cleanVars, scanVars, dupVars, keyVars, entryVars,
                   largeVars>>

IdleMain == cmd = NoCommand

----------------------------------------------------------------------------
(* One filesystem entry before each scanner.  Every scanner walks some     *)
(* part of the filesystem and passes each entry it meets through a chain   *)
(* of tests; what is modelled here is that chain, for one entry, together  *)
(* with the sort and truncation that follow the walk.                      *)

\* A path as Config::is_excluded sees it: path.to_string_lossy(), the
\* sequence of its characters.
MaxPathLen == 3

Alphabet == {"a", "*"}

StringsUpTo(n) == UNION {[1..k -> Alphabet] : k \in 0..n}

PathStrings == StringsUpTo(MaxPathLen) \ {<<>>}

\* The exclusion patterns, and the lists of them a Config carries.
PatternStrings == StringsUpTo(MaxPathLen - 1)

ExcludedLists ==
    {<<>>} \cup {<<p>> : p \in PatternStrings}
           \cup {<<p, q>> : p \in PatternStrings, q \in PatternStrings}

\* str::ends_with
ends_with(s, suffix) ==
    /\ Len(suffix) <= Len(s)
    /\ SubSeq(s, Len(s) - Len(suffix) + 1, Len(s)) = suffix

\* str::contains
str_contains(s, pattern) ==
    \E i \in 0..(Len(s) - Len(pattern)) :
        SubSeq(s, i + 1, i + Len(pattern)) = pattern

\* str::split('*'): the pieces between the stars, empty pieces included.
RECURSIVE split(_)
split(s) ==
    IF \A i \in 1..Len(s) : s[i] # "*" THEN <<s>>
    ELSE LET i == CHOOSE i \in 1..Len(s) :
                      s[i] = "*" /\ \A j \in 1..(i - 1) : s[j] # "*"
         IN  <<SubSeq(s, 1, i - 1)>> \o split(SubSeq(s, i + 1, Len(s)))

\* A variant of the closure of is_excluded in which a pattern never matches.
pattern_matches_nothing(pattern, path_str) == FALSE

\* src/src/config.rs:159-170, the closure of is_excluded: a pattern that
\* splits into exactly two parts at '*' is a prefix and a suffix, and
\* nothing else; every other pattern is a substring.
pattern_matches(pattern, path_str) ==
    IF (\E i \in 1..Len(pattern) : pattern[i] = "*")
          /\ Len(split(pattern)) = 2
    THEN LET parts == split(pattern)
         IN  StartsWith(path_str, parts[1]) /\ ends_with(path_str, parts[2])
    ELSE str_contains(path_str, pattern)

\* src/src/config.rs:157-171
is_excluded(config, path) ==
    \E k \in 1..Len(config.excluded_paths) :
        pattern_matches(config.excluded_paths[k], path)

\* src/src/config.rs:152-154
min_large_size_bytes(config) == config.min_large_size_mb * 1024 * 1024

\* The thresholds the scanners compare sizes against, and the caps they
\* truncate their results to.
CACHE_MIN_SIZE == 1024 * 1024
KNOWN_CACHE_MIN_SIZE == 10 * 1024 * 1024
TEMP_MIN_SIZE == 1024
BUILD_MIN_SIZE == 1024 * 1024
GLOBAL_CACHE_MIN_SIZE == 10 * 1024 * 1024
OLD_MIN_SIZE == 10 * 1024
LARGE_FILES_CAP == 100
OLD_FILES_CAP == 200

\* The sizes an entry is given: each threshold, one byte below it, and 0.
LargeSizes == {1 * 1024 * 1024, 100 * 1024 * 1024}

Thresholds ==
    {TEMP_MIN_SIZE, OLD_MIN_SIZE, CACHE_MIN_SIZE, KNOWN_CACHE_MIN_SIZE}
        \cup LargeSizes

EntrySizes == {0} \cup Thresholds \cup {t - 1 : t \in Thresholds}

\* What metadata.len() is for a directory: the size of the directory's own
\* inode, which depends on the filesystem and not on what it contains.
DirLens == {96, 4096}

\* What stands between an entry and a scanner, at most one thing at a time:
\*   "hidden"    the file name starts with '.'
\*   "nometa"    entry.metadata() fails
\*   "readonly"  metadata.permissions().readonly()
\*   "kept"      the scanner's own reason to keep it: a commonly needed
\*               large file, a system file, a missing project file, no
\*               older copy of the same content
\*   "deep"      entry.depth() > 1
Skips == {"none", "hidden", "nometa", "readonly", "kept", "deep"}

\* How many entries the scanner's sort puts before this one.
Ranks ==
    {0, LARGE_FILES_CAP - 1, LARGE_FILES_CAP, OLD_FILES_CAP - 1, OLD_FILES_CAP}

\* Time is counted in days.  What get_last_accessed and get_last_modified
\* return: Some(time), or None when path.metadata() fails or holds no such
\* time.
UtcNow == 100

NoStamp == [known |-> FALSE, at |-> 0]

Stamp(t) == [known |-> TRUE, at |-> t]

OldStamp == Stamp(0)

\* The times an entry is given: long ago, exactly the 30, 14 and 1 days ago
\* that the scanners compare with, a day after each, and unknown.
Stamps ==
    {NoStamp, OldStamp} \cup
        {Stamp(UtcNow - d) : d \in {30, 29, 14, 13, 1, 0}}

\* A variant in which an unknown time counts as long ago.
was_within_days_if_known(stamp, days) ==
    stamp.known /\ stamp.at > UtcNow - days

\* src/src/scanner/mod.rs:115-122 and 125-132, on what get_last_accessed or
\* get_last_modified returned.
was_within_days(stamp, days) ==
    IF stamp.known THEN stamp.at > UtcNow - days ELSE TRUE

\* The files next to an artifact directory, in its parent: one of the fixed
\* project files of is_project_recently_used, a file with one of its source
\* extensions, or any other file; whether path.exists() holds for it and
\* what get_last_modified returns for it.  A file whose metadata cannot be
\* read (a dangling link) neither exists nor has a time.
ProjectFileKinds == {"project_file", "source", "other"}

ProjectFiles(days) ==
    {[kind |-> k, exists |-> TRUE, modified |-> m] :
        k \in ProjectFileKinds,
        m \in {NoStamp, Stamp(UtcNow - days), Stamp(UtcNow - days + 1)}}
    \cup {[kind |-> k, exists |-> FALSE, modified |-> NoStamp] :
             k \in ProjectFileKinds}

\* A variant that looks at the fixed project files only.
is_project_recently_used_by_project_files(project, listable, days) ==
    \E f \in project :
        f.kind = "project_file" /\ f.exists
            /\ was_within_days(f.modified, days)

\* src/src/scanner/build_artifacts.rs:108-153: a fixed project file that
\* exists and was modified within the days, or, when the project root can
\* be listed, a file with a source extension modified within the days.
is_project_recently_used(project, listable, days) ==
    \/ \E f \in project :
          f.kind = "project_file" /\ f.exists
              /\ was_within_days(f.modified, days)
    \/ /\ listable
       /\ \E f \in project :
             f.kind = "source" /\ was_within_days(f.modified, days)

\* A regular file: len bytes.
FileEntries(paths, sizes, skips, ranks) ==
    {[path |-> p, is_dir |-> FALSE, len |-> n, tree |-> n, lost |-> 0,
      skip |-> s, ahead |-> a, accessed |-> OldStamp,
      modified |-> OldStamp, project |-> {}, listable |-> TRUE] :
        p \in paths, n \in sizes, s \in skips, a \in ranks}

\* A directory: tree is the sum of the sizes of the regular files beneath
\* it that a walk can read, lost the bytes of those it cannot.
DirEntries(paths, sizes, skips, ranks) ==
    {[path |-> p, is_dir |-> TRUE, len |-> l, tree |-> n, lost |-> u,
      skip |-> s, ahead |-> a, accessed |-> OldStamp,
      modified |-> OldStamp, project |-> {}, listable |-> TRUE] :
        p \in paths, l \in DirLens, n \in sizes, u \in {0, 1},
        s \in skips, a \in ranks}

\* The same entries, accessed and modified at the given times.
WithStamps(entries, accessed, modified) ==
    {[e EXCEPT !.accessed = a, !.modified = m] :
        e \in entries, a \in accessed, m \in modified}

\* The same entries, next to the given files.
WithProject(entries, projects, listables) ==
    {[e EXCEPT !.project = p, !.listable = l] :
        e \in entries, p \in projects, l \in listables}

\* src/src/scanner/mod.rs:88-96: the sum of metadata.len() over the regular
\* files of the walk whose entry and metadata can be read; the walk of a
\* regular file yields the file itself.
calculate_dir_size(e) ==
    IF e.is_dir THEN e.tree
    ELSE IF e.skip = "nometa" THEN 0 ELSE e.len

CleanableFile(e, size, category, is_directory) ==
    [path |-> e.path, size |-> size, category |-> category,
     is_directory |-> is_directory]

\* src/src/scanner/cache.rs:60-113
cache_scan(e, config) ==
    LET size == IF e.is_dir THEN calculate_dir_size(e)
                ELSE IF e.skip = "nometa" THEN 0 ELSE e.len
    IN  IF is_excluded(config, e.path) THEN <<>>
        ELSE IF size < CACHE_MIN_SIZE THEN <<>>
        ELSE <<CleanableFile(e, size, "Cache", e.is_dir)>>

\* src/src/scanner/cache.rs:182-220
known_cache_scan(e, config) ==
    LET size == calculate_dir_size(e)
    IN  IF is_excluded(config, e.path) THEN <<>>
        ELSE IF size >= KNOWN_CACHE_MIN_SIZE
             THEN <<CleanableFile(e, size, "Cache", TRUE)>>
             ELSE <<>>

\* src/src/scanner/trash.rs:55-102
trash_scan(e, config) ==
    LET size == IF e.is_dir THEN calculate_dir_size(e)
                ELSE IF e.skip = "nometa" THEN 0 ELSE e.len
    IN  IF is_excluded(config, e.path) THEN <<>>
        ELSE <<CleanableFile(e, size, "Trash", e.is_dir)>>

\* src/src/scanner/temp.rs:57-138: the size is metadata.len() for files and
\* directories alike, and the threshold is applied to files only.
temp_scan(e, config) ==
    IF is_excluded(config, e.path) THEN <<>>
    ELSE IF was_within_days(e.modified, 1) THEN <<>>
    ELSE IF e.skip \in {"nometa", "readonly"} THEN <<>>
    ELSE IF e.len < TEMP_MIN_SIZE /\ ~e.is_dir THEN <<>>
    ELSE IF e.is_dir /\ e.skip = "deep" THEN <<>>
    ELSE <<CleanableFile(e, e.len, "Temp", e.is_dir)>>

\* src/src/scanner/downloads.rs:34-111
downloads_scan(e, config) ==
    LET size == IF e.is_dir THEN calculate_dir_size(e) ELSE e.len
    IN  IF is_excluded(config, e.path) THEN <<>>
        ELSE IF e.skip = "hidden" THEN <<>>
        ELSE IF was_within_days(e.accessed, config.download_age_days)
             THEN <<>>
        ELSE IF e.skip = "nometa" THEN <<>>
        ELSE <<CleanableFile(e, size, "Downloads", e.is_dir)>>

\* src/src/scanner/build_artifacts.rs:160-259
build_artifacts_scan(e, config) ==
    LET size == calculate_dir_size(e)
    IN  IF ~e.is_dir THEN <<>>
        ELSE IF is_excluded(config, e.path) THEN <<>>
        ELSE IF e.skip = "kept" THEN <<>>
        ELSE IF is_project_recently_used(e.project, e.listable,
                                         config.project_recent_days)
             THEN <<>>
        ELSE IF size < BUILD_MIN_SIZE THEN <<>>
        ELSE <<CleanableFile(e, size, "BuildArtifact", TRUE)>>

\* src/src/scanner/build_artifacts.rs:282-336
global_cache_scan(e, config) ==
    LET size == calculate_dir_size(e)
    IN  IF is_excluded(config, e.path) THEN <<>>
        ELSE IF size < GLOBAL_CACHE_MIN_SIZE THEN <<>>
        ELSE <<CleanableFile(e, size, "BuildArtifact", TRUE)>>

\* src/src/scanner/large_files.rs:75-174: the entries that pass are sorted
\* by size, largest first, and all but the first 100 are dropped.
large_files_scan(e, config) ==
    IF e.is_dir THEN <<>>
    ELSE IF is_excluded(config, e.path) THEN <<>>
    ELSE IF e.skip \in {"hidden", "nometa"} THEN <<>>
    ELSE IF e.len < min_large_size_bytes(config) THEN <<>>
    ELSE IF e.skip = "kept" THEN <<>>
    ELSE IF e.ahead >= LARGE_FILES_CAP THEN <<>>
    ELSE <<CleanableFile(e, e.len, "LargeFile", FALSE)>>

\* src/src/scanner/old_files.rs:76-178: the entries that pass are sorted
\* oldest first, then largest first, and all but the first 200 are dropped.
old_files_scan(e, config) ==
    IF e.is_dir THEN <<>>
    ELSE IF is_excluded(config, e.path) THEN <<>>
    ELSE IF e.skip \in {"hidden", "kept"} THEN <<>>
    ELSE IF was_within_days(e.accessed, config.min_age_days) THEN <<>>
    ELSE IF e.skip = "nometa" THEN <<>>
    ELSE IF e.len < OLD_MIN_SIZE THEN <<>>
    ELSE IF e.ahead >= OLD_FILES_CAP THEN <<>>
    ELSE <<CleanableFile(e, e.len, "OldFile", FALSE)>>

\* src/src/scanner/duplicates.rs:76-201: a file is collected when it passes
\* the walk's tests, and reported when an older file has the same content.
duplicates_scan(e, config) ==
    IF e.is_dir THEN <<>>
    ELSE IF is_excluded(config, e.path) THEN <<>>
    ELSE IF e.skip \in {"hidden", "nometa"} THEN <<>>
    ELSE IF e.len < MinDupSize THEN <<>>
    ELSE IF e.skip = "kept" THEN <<>>
    ELSE <<CleanableFile(e, e.len, "Duplicate", FALSE)>>

ScannerKinds ==
    {"Cache", "KnownCache", "Trash", "Temp", "Downloads", "BuildArtifacts",
     "GlobalCache", "LargeFiles", "OldFiles", "Duplicates"}

NoEmit == [scanner |-> "none", results |-> <<>>]

Emit(scanner, results) ==
    /\ emit' = [scanner |-> scanner, results |-> results]
    /\ UNCHANGED <<entry, scan_config>>
    /\ UNCHANGED nonEntryVars

CacheScannerScan == Emit("Cache", cache_scan(entry, scan_config))

KnownCacheScannerScan ==
    Emit("KnownCache", known_cache_scan(entry, scan_config))

TrashScannerScan == Emit("Trash", trash_scan(entry, scan_config))

TempScannerScan == Emit("Temp", temp_scan(entry, scan_config))

DownloadsScannerScan ==
    Emit("Downloads", downloads_scan(entry, scan_config))

BuildArtifactsScannerScan ==
    Emit("BuildArtifacts", build_artifacts_scan(entry, scan_config))

GlobalCacheScannerScan ==
    Emit("GlobalCache", global_cache_scan(entry, scan_config))

LargeFilesScannerScan ==
    Emit("LargeFiles", large_files_scan(entry, scan_config))

OldFilesScannerScan ==
    Emit("OldFiles", old_files_scan(entry, scan_config))

DuplicatesScannerScan ==
    Emit("Duplicates", duplicates_scan(entry, scan_config))

EntryConfig(excluded_paths, mb) ==
    [DefaultConfig EXCEPT !.excluded_paths = excluded_paths,
                          !.min_large_size_mb = mb]

IdleEntry ==
    /\ entry = [path |-> <<"a">>, is_dir |-> FALSE, len |-> 0, tree |-> 0,
                lost |-> 0, skip |-> "none", ahead |-> 0,
                accessed |-> OldStamp, modified |-> OldStamp,
                project |-> {}, listable |-> TRUE]
    /\ scan_config = DefaultConfig
    /\ emit = NoEmit

----------------------------------------------------------------------------
(* The large files scanner over a whole walk.  The cap of 100 is the       *)
(* code's; to let a walk hold more files than that, the files are kept as  *)
(* runs: count files of one size met one after the other.                  *)

MaxRuns == 3

\* The sizes of the files: one byte below the configured minimum, the
\* minimum, one byte above, and twice the minimum.
LargeFileSizes ==
    LET min_size == min_large_size_bytes(DefaultConfig)
    IN  {min_size - 1, min_size, min_size + 1, 2 * min_size}

RunCounts == {1, LARGE_FILES_CAP - 1, LARGE_FILES_CAP}

Runs == [size : LargeFileSizes, count : RunCounts]

LargeWalks == UNION {[1..n -> Runs] : n \in 0..MaxRuns}

\* src/src/scanner/large_files.rs:94-128: the files that are pushed, in
\* discovery order; here every file is a visible regular file that is not
\* excluded and not a commonly needed one, and only its size decides.
large_pushed(walk, config) ==
    SelectSeq(walk, LAMBDA run : ~(run.size < min_large_size_bytes(config)))

\* A variant of the sort that leaves the files in discovery order.
large_sort_discovery_order(results) == results

\* src/src/scanner/large_files.rs:168: results.sort_by on the size, largest
\* first, a stable sort.
large_sort(results) == SortBySizeDesc(results)

\* src/src/scanner/large_files.rs:171: Vec::truncate(n) keeps the first n.
RECURSIVE truncate(_, _)
truncate(results, n) ==
    IF results = <<>> \/ n = 0 THEN <<>>
    ELSE IF Head(results).count <= n
         THEN <<Head(results)>>
              \o truncate(Tail(results), n - Head(results).count)
         ELSE <<[Head(results) EXCEPT !.count = n]>>

\* src/src/scanner/large_files.rs:75-174
LargeFilesScan ==
    /\ ~large_done
    /\ large_done' = TRUE
    /\ large_results' =
           truncate(large_sort(large_pushed(large_walk, DefaultConfig)),
                    LARGE_FILES_CAP)
    /\ UNCHANGED large_walk
    /\ UNCHANGED nonLargeVars

IdleLarge ==
    /\ large_walk = <<>>
    /\ large_done = FALSE
    /\ large_results = <<>>

----------------------------------------------------------------------------
(* The specifications.                                                     *)

InitClean ==
    /\ home \in {Home, NoHome}
    /\ pc = "idle"
    /\ filter = NoFilter
    /\ seen = 0
    /\ todo = 0
    /\ log = <<>>
    /\ result = NewResult
    /\ last = NoItem
    /\ IdleScan
    /\ IdleDup
    /\ IdleCache
    /\ IdleKey
    /\ IdleMain
    /\ IdleEntry
    /\ IdleLarge

NextClean ==
    \/ \E cats \in Filters, n \in 0..MaxFiles : CliBegin(cats, n)
    \/ \E f \in CleanableFiles : CliSkipFiltered(f)
    \/ \E f \in CleanableFiles, fs_ok \in BOOLEAN : CliDeleteNext(f, fs_ok)
    \/ CliFinish
    \/ \E n \in 0..MaxFiles : UiBegin(n)
    \/ \E path \in PathUniverse, is_dir \in BOOLEAN, size \in Sizes,
          fs_ok \in BOOLEAN :
           UiDeleteNext(path, is_dir, RecordedSize(path), size, fs_ok)
    \/ UiFinish

SpecClean == InitClean /\ [][NextClean]_vars

\* The option sets run_scan is called with in SpecScan.
ScanOptionsUniverse ==
    { NoFlags,
      [NoFlags EXCEPT !.cache = TRUE],
      [NoFlags EXCEPT !.build = TRUE],
      [NoFlags EXCEPT !.cache = TRUE, !.build = TRUE],
      [NoFlags EXCEPT !.trash = TRUE, !.large = TRUE, !.old = TRUE],
      [NoFlags EXCEPT !.temp = TRUE, !.downloads = TRUE,
                      !.duplicates = TRUE] }

InitScan ==
    /\ options \in ScanOptionsUniverse
    /\ spc = "start"
    /\ scanners = <<>>
    /\ scan_results = <<>>
    /\ finished = <<>>
    /\ scan = NoScan
    /\ IdleClean
    /\ IdleDup
    /\ IdleCache
    /\ IdleKey
    /\ IdleMain
    /\ IdleEntry
    /\ IdleLarge

NextScan ==
    \/ BuildScanners
    \/ /\ Len(scan_results) < Len(scanners)
       /\ \E out \in Outcomes(scanners[Len(scan_results) + 1],
                              MaxFound - FoundIn(scan_results),
                              MaxFailed - FailedIn(scan_results)) :
              ScannerReturns(out)
    \/ AggregateAndReturn

SpecScan == InitScan /\ [][NextScan]_vars

\* The option sets run_scan is called with in SpecPar: those that select
\* some categories.
ParOptionsUniverse == ScanOptionsUniverse \ {NoFlags}

\* The scanners of one run returning in any order.
InitPar ==
    /\ options \in ParOptionsUniverse
    /\ spc = "start"
    /\ scanners = <<>>
    /\ scan_results = <<>>
    /\ finished = <<>>
    /\ scan = NoScan
    /\ IdleClean
    /\ IdleDup
    /\ IdleCache
    /\ IdleKey
    /\ IdleMain
    /\ IdleEntry
    /\ IdleLarge

NextPar ==
    \/ BuildScanners
    \/ \E i \in 1..Len(scanners) :
          \E out \in Outcomes(scanners[i], MaxFound - FoundIn(finished),
                               MaxFailed - FailedIn(finished)) :
              ScannerFinishes(i, out)
    \/ Collect
    \/ AggregateAndReturn

SpecPar == InitPar /\ [][NextPar]_vars

SelectFound == 1  \* files reported in one run of SpecSelect

\* Scanner selection over every combination of the nine flags.
InitSelect ==
    /\ options \in AllScanOptions
    /\ spc = "start"
    /\ scanners = <<>>
    /\ scan_results = <<>>
    /\ finished = <<>>
    /\ scan = NoScan
    /\ IdleClean
    /\ IdleDup
    /\ IdleCache
    /\ IdleKey
    /\ IdleMain
    /\ IdleEntry
    /\ IdleLarge

NextSelect ==
    \/ BuildScanners
    \/ /\ Len(scan_results) < Len(scanners)
       /\ \E out \in Outcomes(scanners[Len(scan_results) + 1],
                              SelectFound - FoundIn(scan_results), 0) :
              ScannerReturns(out)
    \/ AggregateAndReturn

SpecSelect == InitSelect /\ [][NextSelect]_vars

InitDup ==
    /\ fs_files \in SeqsUpTo(WalkEntries, MaxDupFiles)
    /\ dpc = "start"
    /\ dup_results = <<>>
    /\ IdleClean
    /\ IdleScan
    /\ IdleCache
    /\ IdleKey
    /\ IdleMain
    /\ IdleEntry
    /\ IdleLarge

NextDup ==
    \E size_order \in Orderings(PotentialSizes(fs_files)) :
        \E hash_order \in
                Orderings(GroupHashes(fs_files,
                                      HashResults(fs_files, size_order))),
           none_order \in Orderings(NoTimeFiles(fs_files)) :
            DupScan(size_order, hash_order, none_order)

SpecDup == InitDup /\ [][NextDup]_vars

\* A cache file left by an earlier run.
OldCacheFile ==
    to_string_pretty([timestamp_secs |-> 0,
                      options_key |-> options_fingerprint(BaseOptions),
                      result |-> [files |-> <<CacheFileA>>,
                                  errors |-> <<>>]])

InitCache ==
    /\ cache_dir \in BOOLEAN
    /\ cache_file \in {NoFile, Unreadable, Garbage, OldCacheFile}
    /\ clock \in {-1, 0}
    /\ cpc = "idle"
    /\ pending = <<>>
    /\ saves = 0
    /\ last_save = NoSave
    /\ loaded = NoLoad
    /\ IdleClean
    /\ IdleScan
    /\ IdleDup
    /\ IdleKey
    /\ IdleMain
    /\ IdleEntry
    /\ IdleLarge

NextCache ==
    \/ \E r \in CacheResults, o \in CacheOptionsUniverse, fs_ok \in BOOLEAN :
           SaveBegin(r, o, fs_ok)
    \/ \E write_ok \in BOOLEAN : SaveWrite(write_ok)
    \/ \E o \in CacheOptionsUniverse, max_age_secs \in MaxAges :
           load_if_recent(o, max_age_secs)
    \/ \E d \in ClockSteps : Tick(d)

SpecCache == InitCache /\ [][NextCache]_vars

KeyRequests == [options : KeyOptionsUniverse, file : ConfigFiles]

InitKey ==
    /\ requests \in [1..2 -> KeyRequests]
    /\ kpc = "start"
    /\ effective = <<>>
    /\ prints = <<>>
    /\ IdleClean
    /\ IdleScan
    /\ IdleDup
    /\ IdleCache
    /\ IdleMain
    /\ IdleEntry
    /\ IdleLarge

NextKey == ComputeKeys

SpecKey == InitKey /\ [][NextKey]_vars

InitMain ==
    /\ cache_dir \in BOOLEAN
    /\ cache_file \in {NoFile, Garbage, OldCacheFile}
    /\ clock = 0
    /\ cpc = "idle"
    /\ pending = <<>>
    /\ saves = 0
    /\ last_save = NoSave
    /\ loaded = NoLoad
    /\ cmd = NoCommand
    /\ IdleClean
    /\ IdleScan
    /\ IdleDup
    /\ IdleKey
    /\ IdleEntry
    /\ IdleLarge

NextMain ==
    \/ \E o \in CacheOptionsUniverse, r \in MainResults : ScanCommand(o, r)
    \/ \E o \in CacheOptionsUniverse, r \in MainResults, yes \in BOOLEAN,
          answer \in Answers : CleanCommand(o, r, yes, answer)
    \/ \E d \in ClockSteps : Tick(d)

SpecMain == InitMain /\ [][NextMain]_vars

\* Entries of every size around every threshold, before every scanner:
\* untouched for long with at most one thing in their way, or with nothing
\* in their way but accessed and modified today.
InitEntry ==
    /\ LET entries ==
               FileEntries({<<"a">>, <<"*">>}, EntrySizes, Skips, Ranks)
                   \cup DirEntries({<<"a">>, <<"*">>}, EntrySizes, Skips,
                                   Ranks)
       IN  entry \in entries \cup
               WithStamps({e \in entries : e.skip = "none"},
                          {Stamp(UtcNow)}, {Stamp(UtcNow)})
    /\ scan_config \in {EntryConfig(x, mb) :
                           x \in {<<>>, << <<"a">> >>},
                           mb \in {1, 100}}
    /\ emit = NoEmit
    /\ IdleClean
    /\ IdleScan
    /\ IdleDup
    /\ IdleCache
    /\ IdleKey
    /\ IdleMain
    /\ IdleLarge

NextEntry ==
    \/ CacheScannerScan
    \/ KnownCacheScannerScan
    \/ TrashScannerScan
    \/ TempScannerScan
    \/ DownloadsScannerScan
    \/ BuildArtifactsScannerScan
    \/ GlobalCacheScannerScan
    \/ LargeFilesScannerScan
    \/ OldFilesScannerScan
    \/ DuplicatesScannerScan

SpecEntry == InitEntry /\ [][NextEntry]_vars

\* Entries that nothing but the exclusion list can keep from being
\* reported, of every path, under every exclusion list.
InitExclude ==
    /\ entry \in FileEntries(PathStrings, {100 * 1024 * 1024}, {"none"}, {0})
                   \cup {d \in DirEntries(PathStrings, {100 * 1024 * 1024},
                                          {"none"}, {0}) :
                            d.len = 4096 /\ d.lost = 0}
    /\ scan_config \in {EntryConfig(x, 100) : x \in ExcludedLists}
    /\ emit = NoEmit
    /\ IdleClean
    /\ IdleScan
    /\ IdleDup
    /\ IdleCache
    /\ IdleKey
    /\ IdleMain
    /\ IdleLarge

SpecExclude == InitExclude /\ [][NextEntry]_vars

\* The number of files next to an artifact directory.
MaxProjectFiles == 2

Projects ==
    {p \in SUBSET ProjectFiles(DefaultConfig.project_recent_days) :
        Cardinality(p) <= MaxProjectFiles}

\* Entries that nothing but time can keep from being reported: files and
\* directories accessed and modified at every time, and directories next
\* to every choice of project files, in a parent that can or cannot be
\* listed.
InitRecent ==
    /\ LET entries ==
               FileEntries({<<"a">>}, {100 * 1024 * 1024}, {"none"}, {0})
                 \cup {d \in DirEntries({<<"a">>}, {100 * 1024 * 1024},
                                        {"none"}, {0}) :
                          d.len = 4096 /\ d.lost = 0}
       IN  entry \in WithStamps(entries, Stamps, Stamps) \cup
                     WithProject({e \in entries : e.is_dir}, Projects,
                                 BOOLEAN)
    /\ scan_config = DefaultConfig
    /\ emit = NoEmit
    /\ IdleClean
    /\ IdleScan
    /\ IdleDup
    /\ IdleCache
    /\ IdleKey
    /\ IdleMain
    /\ IdleLarge

SpecRecent == InitRecent /\ [][NextEntry]_vars

InitLarge ==
    /\ large_walk \in LargeWalks
    /\ large_done = FALSE
    /\ large_results = <<>>
    /\ IdleClean
    /\ IdleScan
    /\ IdleDup
    /\ IdleCache
    /\ IdleKey
    /\ IdleMain
    /\ IdleEntry

NextLarge == LargeFilesScan

SpecLarge == InitLarge /\ [][NextLarge]_vars

----------------------------------------------------------------------------
(* Claims about the deletion engine (SpecClean).                           *)

UnderHome(path) == home # NoHome /\ StartsWith(path, home)

CliHandled == last.entry = "cli" /\ last.outcome # "filtered"

ReportedAsError(path, msg) ==
    /\ Len(result.errors) > 0
    /\ result.errors[Len(result.errors)] = <<path, msg>>

\* C1: cleaner::delete_files never removes an item whose path lies neither
\* under the home directory nor under a temp root (/tmp, /var/tmp,
\* /var/folders), whether the item is a file or a directory: no removal is
\* made and the item is reported as an error with the refusal message; an
\* item under a temp root is never refused.  "Under" is Path::starts_with on
\* the path as given.
C1_OutsideRootsRefused ==
    CliHandled =>
        /\ (~UnderHome(last.path) /\ ~UnderTempRoot(last.path))
              => /\ last.outcome = "refused"
                 /\ ReportedAsError(last.path, Refusal)
        /\ UnderTempRoot(last.path) => last.outcome # "refused"

C1_Witness ==
    /\ CliHandled
    /\ last.path = <<"/", "etc", "passwd">>
    /\ last.outcome = "refused"
    /\ ReportedAsError(last.path, Refusal)

\* C2: a direct child of the home directory is removed by
\* cleaner::delete_files only if its name is .Trash or .cache; any other
\* direct child is refused with a per-item error and not removed, and
\* ~/.cache is not refused.
C2_HomeChildAllowList ==
    (CliHandled /\ home # NoHome /\ Parent(last.path) = home) =>
        /\ last.outcome = "removed" => FileName(last.path) \in {".Trash", ".cache"}
        /\ FileName(last.path) \notin {".Trash", ".cache"}
              => /\ last.outcome = "refused"
                 /\ ReportedAsError(last.path, Refusal)
        /\ FileName(last.path) = ".cache" => last.outcome # "refused"

C2_Witness ==
    /\ CliHandled
    /\ home = Home
    /\ last.path = <<"/", "home", "u", "Documents">>
    /\ last.outcome = "refused"

\* C3: no deletion entry point (cleaner::delete_files, the bridge's
\* delete_files command) removes a path the containment check refuses.
C3_EveryEntryPointContained ==
    (last.entry \in {"cli", "ui"} /\ last.outcome = "removed")
        => is_safe_to_delete(last.path, home)

\* A call of delete_files has returned.
DeleteDone == pc = "done"

\* The items of the call the category filter selects.
SelectedItems ==
    { k \in 1..Len(log) :
          filter = NoFilter \/ InFilter(filter, log[k].category) }

RemovedItems == { k \in 1..Len(log) : log[k].outcome = "removed" }

RECURSIVE SumOfSizes(_)
SumOfSizes(S) ==
    IF S = {} THEN 0
    ELSE LET k == CHOOSE x \in S : TRUE
         IN  log[k].size + SumOfSizes(S \ {k})

\* C16: a call of delete_files goes through all its items whatever happens
\* to each, and when it returns deleted_count plus the number of error
\* strings is the number of items the category filter selects.
C16_EveryItemAttempted ==
    DeleteDone =>
        /\ Len(log) = todo
        /\ \A k \in SelectedItems : log[k].outcome # "filtered"
        /\ result.deleted_count + Len(result.errors)
               = Cardinality(SelectedItems)

\* C16's case: with a filter, the first selected item was refused, the
\* second was still attempted and removed.
C16_Witness ==
    /\ DeleteDone
    /\ last.entry = "cli"
    /\ filter = <<"Cache">>
    /\ todo = 2
    /\ log[1].outcome = "refused"
    /\ log[2].outcome = "removed"
    /\ result.deleted_count = 1
    /\ Len(result.errors) = 1

\* C17: after a deletion run deleted_count is the number of items removed
\* and freed_bytes the sum of the recorded sizes of those items.
C17_CountsAndBytes ==
    DeleteDone =>
        /\ result.deleted_count = Cardinality(RemovedItems)
        /\ result.freed_bytes = SumOfSizes(RemovedItems)

----------------------------------------------------------------------------
(* Claims about run_scan (SpecScan, SpecSelect).                           *)

Returned == spc = "returned"

\* The outputs of the scanners that succeeded, concatenated in scanner order.
RECURSIVE MergedOutputs(_)
MergedOutputs(rs) ==
    IF rs = <<>> THEN <<>>
    ELSE (IF Head(rs).result.ok THEN Head(rs).result.files ELSE <<>>)
         \o MergedOutputs(Tail(rs))

\* The scanners that failed, in scanner order.
FailedScanners == SelectSeq(scan_results, LAMBDA r : ~r.result.ok)

PathsOf(files) == { files[i].path : i \in 1..Len(files) }

\* The indices of m that hold the first entry of their path.
FirstIdx(m) ==
    { i \in 1..Len(m) : \A j \in 1..(i - 1) : m[j].path # m[i].path }

\* m restricted to FirstIdx(m), order kept.
FirstOccurrences(m) ==
    LET idx == FirstIdx(m)
    IN  [k \in 1..Cardinality(idx) |->
            m[CHOOSE i \in idx : Cardinality({j \in idx : j < i}) = k - 1]]

\* C4: whatever the selected scanners return, the ScanResult run_scan
\* returns holds no two entries with equal path.
C4_UniquePaths ==
    Returned =>
        \A i, j \in 1..Len(scan.files) :
            i # j => scan.files[i].path # scan.files[j].path

\* A run in which a path was reported more than once.
C4_Witness ==
    /\ Returned
    /\ Len(MergedOutputs(scan_results)) > Len(scan.files)
    /\ Len(scan.files) >= 1

\* C5: run_scan's files are exactly the first occurrences, by path, of the
\* merged outputs of the successful scanners: every reported path appears
\* (nothing lost), and the entry kept for a path reported twice, with its
\* category, size and reason, is the one merged first.
C5_FirstOccurrenceWins ==
    Returned =>
        LET m == MergedOutputs(scan_results)
        IN  /\ scan.files = FirstOccurrences(m)
            /\ PathsOf(scan.files) = PathsOf(m)

\* Cache Scanner and Known Cache Scanner report the same path, and Cache
\* Scanner's entry is the one kept.
C5_Witness ==
    /\ Returned
    /\ \E i, j \in 1..Len(scan_results) :
          /\ scan_results[i].name = "Cache Scanner"
          /\ scan_results[j].name = "Known Cache Scanner"
          /\ Len(scan_results[i].result.files) = 1
          /\ Len(scan_results[j].result.files) = 1
          /\ scan_results[i].result.files[1].path
                = scan_results[j].result.files[1].path
          /\ scan_results[i].result.files[1]
                # scan_results[j].result.files[1]
          /\ scan.files = scan_results[i].result.files

AllScanners ==
    <<"Cache Scanner", "Known Cache Scanner", "Trash Scanner", "Temp Scanner",
      "Downloads Scanner", "Build Artifacts Scanner", "Global Cache Scanner",
      "Large Files Scanner", "Duplicates Scanner", "Old Files Scanner">>

\* The flag of a scan category.
Flag(o, c) ==
    CASE c = "Cache" -> o.cache
      [] c = "Trash" -> o.trash
      [] c = "Temp" -> o.temp
      [] c = "Downloads" -> o.downloads
      [] c = "Build" -> o.build
      [] c = "Large" -> o.large
      [] c = "Duplicates" -> o.duplicates
      [] c = "Old" -> o.old

Flagged(o) == { c \in ScanCategory : Flag(o, c) }

\* The scanner units of a scan category, and the Category of its files.
UnitsOf(c) ==
    CASE c = "Cache" -> {"Cache Scanner", "Known Cache Scanner"}
      [] c = "Trash" -> {"Trash Scanner"}
      [] c = "Temp" -> {"Temp Scanner"}
      [] c = "Downloads" -> {"Downloads Scanner"}
      [] c = "Build" -> {"Build Artifacts Scanner", "Global Cache Scanner"}
      [] c = "Large" -> {"Large Files Scanner"}
      [] c = "Duplicates" -> {"Duplicates Scanner"}
      [] c = "Old" -> {"Old Files Scanner"}

FileCategoryOf(c) ==
    CASE c = "Build" -> "BuildArtifact"
      [] c = "Large" -> "LargeFile"
      [] c = "Duplicates" -> "Duplicate"
      [] c = "Old" -> "OldFile"
      [] OTHER -> c

\* C7: with the "all" flag set or no category flag set run_scan runs all ten
\* scanners; otherwise it runs exactly the scanners of the flagged
\* categories, each once, and every file of the result has the Category of a
\* flagged category.
C7_ScannerSelection ==
    spc \in {"run", "returned"} =>
        IF options.all \/ Flagged(options) = {}
        THEN scanners = AllScanners
        ELSE /\ { scanners[i] : i \in 1..Len(scanners) }
                    = UNION { UnitsOf(c) : c \in Flagged(options) }
             /\ \A i, j \in 1..Len(scanners) :
                    i # j => scanners[i] # scanners[j]
             /\ \A k \in 1..Len(scan.files) :
                    scan.files[k].category
                        \in { FileCategoryOf(c) : c \in Flagged(options) }

\* "all" together with a category flag runs all ten scanners, and a scanner
\* of another category reports a file.
C7_Witness ==
    /\ Returned
    /\ options.all /\ Flagged(options) = {"Trash"}
    /\ scanners = AllScanners
    /\ Len(scan.files) = 1
    /\ scan.files[1].category = "LargeFile"

----------------------------------------------------------------------------
(* Claims about DuplicatesScanner::scan.                                   *)

DupDone == dpc = "done"

Reported == { dup_results[k].path : k \in 1..Len(dup_results) }

\* The files the statement calls eligible: regular, not hidden, not
\* excluded, outside the skipped directories, at least MinDupSize long.
Eligible(i) ==
    /\ fs_files[i].kind \in {"ok", "nometa"}
    /\ ContentSize(fs_files[i].content) >= MinDupSize

\* The eligible files the scanner could stat and hash.
Readable(i) ==
    /\ Eligible(i)
    /\ fs_files[i].kind = "ok"
    /\ fs_files[i].hashable

EligibleWith(c) ==
    { i \in 1..Len(fs_files) : Eligible(i) /\ fs_files[i].content = c }

ReadableWith(c) == { i \in EligibleWith(c) : Readable(i) }

EntriesOf(S) ==
    { k \in 1..Len(dup_results) : dup_results[k].path \in S }

C9_OnlySharedContentReported ==
    DupDone =>
        \A k \in 1..Len(dup_results) :
            \E j \in 1..Len(fs_files) :
                /\ j # dup_results[k].path
                /\ Eligible(j)
                /\ fs_files[j].content = fs_files[dup_results[k].path].content

\* C9's case: two readable files of one size and different contents were
\* hashed, and nothing is reported.
C9_Witness ==
    /\ DupDone
    /\ \E i, j \in 1..Len(fs_files) :
           /\ Readable(i) /\ Readable(j)
           /\ fs_files[i].content = "A" /\ fs_files[j].content = "B"
    /\ dup_results = <<>>

----------------------------------------------------------------------------
(* Claims about the scan-result cache.                                     *)

\* A load_if_recent has just returned, the last save returned Ok before it,
\* the options of the two calls are identical and the time between them
\* does not exceed max_age_secs.
LoadAfterSave ==
    /\ loaded.entry = "load"
    /\ last_save.entry = "save"
    /\ last_save.ret = "Ok"
    /\ loaded.options = last_save.options
    /\ loaded.at - last_save.at <= 2 * loaded.max_age_secs

\* C10, as stated: after save(r, A) and no other save, load_if_recent(A,
\* max_age) within max_age returns a result equal to r.
C10_RoundTrip ==
    LoadAfterSave => loaded.ret = last_save.result

\* C10, amended: the same, for a save that wrote the cache file (the cache
\* directory is known) and a load made with the clock not before the epoch.
C10_RoundTripOfWrittenFile ==
    (LoadAfterSave /\ last_save.wrote /\ ~BeforeEpoch(loaded.at))
        => loaded.ret = last_save.result

\* C10's case: the second save replaced the file of the first, the load
\* came exactly max_age_secs later and returned the files and the errors
\* of the second.
C10_Witness ==
    /\ LoadAfterSave
    /\ last_save.wrote
    /\ saves = 2
    /\ loaded.max_age_secs = CACHE_MAX_AGE_SECS
    /\ loaded.at - last_save.at = 2 * CACHE_MAX_AGE_SECS
    /\ Len(last_save.result.files) = 2
    /\ last_save.result.errors # <<>>
    /\ loaded.ret = last_save.result

\* A load_if_recent has just returned a result.
LoadHit == loaded.entry = "load" /\ loaded.ret # NoResult

Stored == from_str(cache_file)

\* Half seconds from the stored timestamp to the call of load_if_recent.
ElapsedSinceStored == loaded.at - 2 * Stored.timestamp_secs

\* Whole seconds from the stored timestamp to the second the call of
\* load_if_recent falls in.
WholeSecondsSinceStored == as_secs(loaded.at) - Stored.timestamp_secs

CacheMiss ==
    \/ cache_file \in {NoFile, Unreadable}
    \/ ~from_str(cache_file).parsed

\* C15: a load_if_recent that finds the cache file absent, unreadable or
\* unparsable returns nothing and leaves the file as it is.
C15_MissIsNoError ==
    [][(loaded'.entry = "load" /\ CacheMiss) =>
           (loaded'.ret = NoResult /\ cache_file' = cache_file)]_vars

\* C15's case: a load found a file that is no envelope and returned
\* nothing.
C15_Witness ==
    /\ loaded.entry = "load"
    /\ cache_dir
    /\ ~BeforeEpoch(loaded.at)
    /\ cache_file = Garbage
    /\ loaded.ret = NoResult

----------------------------------------------------------------------------
(* Claims about the cache key (SpecKey).                                   *)

KeysDone == kpc = "done"

SetOf(q) == { q[k] : k \in 1..Len(q) }

\* The two requests scan differently: the target path, the scanners that
\* run, a threshold or the set of exclusions differ.
ScanDifferently ==
    LET c1 == effective[1].config
        c2 == effective[2].config
    IN  \/ c1.base_path # c2.base_path
        \/ effective[1].scanners # effective[2].scanners
        \/ c1.min_age_days # c2.min_age_days
        \/ c1.min_large_size_mb # c2.min_large_size_mb
        \/ c1.project_recent_days # c2.project_recent_days
        \/ c1.download_age_days # c2.download_age_days
        \/ SetOf(c1.excluded_paths) # SetOf(c2.excluded_paths)

\* C12: two requests that scan differently (target path, categories,
\* thresholds, exclusions) have different fingerprints.
C12_KeyDistinguishesInputs ==
    (KeysDone /\ ScanDifferently) => prints[1] # prints[2]

Count(q, x) == Cardinality({ k \in 1..Len(q) : q[k] = x })

IsPermutation(p, q) ==
    /\ Len(p) = Len(q)
    /\ \A x \in SetOf(p) \cup SetOf(q) : Count(p, x) = Count(q, x)

\* The command lines of the two requests give the same target path, flags
\* and thresholds, and the same exclusion patterns in some order.
SameUpToExcludeOrder ==
    LET o1 == requests[1].options
        o2 == requests[2].options
    IN  /\ [o1 EXCEPT !.exclude = <<>>] = [o2 EXCEPT !.exclude = <<>>]
        /\ IsPermutation(o1.exclude, o2.exclude)

\* C13: requests that differ only in the order of their exclusion patterns
\* have equal fingerprints.
C13_KeyIgnoresExcludeOrder ==
    (KeysDone /\ SameUpToExcludeOrder) => prints[1] = prints[2]

\* C13's case: the same patterns in two different orders, one key.
C13_Witness ==
    /\ KeysDone
    /\ SameUpToExcludeOrder
    /\ requests[1].options.exclude # requests[2].options.exclude
    /\ prints[1] = prints[2]

----------------------------------------------------------------------------
(* Claims about the commands of main (SpecMain).                           *)

\* C14: after a scan command that completed successfully the cache file
\* holds the envelope of that scan: the fingerprint of its options, its
\* result and the time it ran; and a clean command with the same options
\* within the freshness window does not walk the file system again.
C14_ScanOverwritesCache ==
    /\ (cmd.command = "scan" /\ cmd.exit = "Ok") =>
           /\ Stored.parsed
           /\ Stored.options_key = options_fingerprint(cmd.options)
           /\ Stored.result = cmd.result
           /\ Stored.timestamp_secs = as_secs(cmd.at)
    /\ (cmd.command = "clean" /\ Stored.parsed
        /\ Stored.options_key = options_fingerprint(cmd.options)
        /\ as_secs(cmd.at) - Stored.timestamp_secs <= CACHE_MAX_AGE_SECS) =>
           ~cmd.walked

\* C27: the clean command calls delete_files only when the scan found
\* files and --yes was given or the prompt returned yes; when the operator
\* declines, the prompt fails or the scan found nothing, it is not called.
C27_DeleteOnlyAfterConfirmation ==
    cmd.command = "clean" =>
        /\ cmd.deleted =>
               /\ cmd.result.files # <<>>
               /\ cmd.yes \/ (cmd.asked /\ cmd.answer = "yes")
        /\ (cmd.asked /\ cmd.answer \in {"no", "error"}) => ~cmd.deleted
        /\ cmd.result.files = <<>> => (~cmd.deleted /\ ~cmd.asked)
        /\ cmd.yes => ~cmd.asked

\* C27's case: the scan found files, --yes was not given, the prompt
\* failed, and delete_files was not called.
C27_Witness ==
    /\ cmd.command = "clean"
    /\ cmd.result.files # <<>>
    /\ ~cmd.yes
    /\ cmd.asked
    /\ cmd.answer = "error"
    /\ ~cmd.deleted

----------------------------------------------------------------------------
(* Further claims about the duplicate scanner and the cache.               *)

\* The collected files whose hash cannot be computed.
Unhashable ==
    { i \in 1..Len(fs_files) : Collected(fs_files, i) /\ ~fs_files[i].hashable }

\* The same walk in which the files that cannot be hashed do not exist:
\* each has become an entry that is no regular file, so that the other
\* files keep their places.
WithoutUnhashable ==
    [i \in 1..Len(fs_files) |->
        IF i \in Unhashable
        THEN [kind |-> "notfile", content |-> "A", atime |-> 1,
              hashable |-> TRUE]
        ELSE fs_files[i]]

\* What a scan of the given walk can return.
ScansOf(files) ==
    { SortBySizeDesc(GroupResults(files, HashResults(files, size_order),
                                  hash_order, none_order)) :
        size_order \in Orderings(PotentialSizes(files)),
        hash_order \in Orderings({<<"blake3", c>> : c \in {"A", "B"}}),
        none_order \in Orderings(NoTimeFiles(files)) }

\* C22: a file whose hash cannot be computed is dropped in silence: the
\* scan returns its results all the same, the file is neither reported nor
\* named as the original of a reported file, and the results are those of
\* a scan in which the file does not exist.
C22_UnhashableFileDropped ==
    DupDone =>
        /\ \A k \in 1..Len(dup_results) :
              /\ dup_results[k].path \notin Unhashable
              /\ dup_results[k].reason[2] \notin Unhashable
        /\ dup_results \in ScansOf(WithoutUnhashable)

\* C22's case: the oldest of three copies cannot be hashed; of the other
\* two the newer is reported as a duplicate of the older.
C22_Witness ==
    /\ DupDone
    /\ Len(fs_files) = 3
    /\ \A i \in 1..3 : fs_files[i].kind = "ok" /\ fs_files[i].content = "A"
    /\ Unhashable = {1}
    /\ fs_files[1].atime = 1 /\ fs_files[2].atime = 2 /\ fs_files[3].atime = 2
    /\ Len(dup_results) = 1
    /\ dup_results[1].path = 3
    /\ dup_results[1].reason = <<"Duplicate of: ", 2>>

\* C23: the cache file is never partially updated: whenever it can be
\* observed, also while a save is in progress, it is not a truncated file,
\* and a load that runs during a save reads a complete envelope or no file.
C23_NeverPartiallyUpdated ==
    /\ cache_file # Truncated
    /\ (loaded.entry = "load" /\ loaded.during_save) =>
           (cache_file = NoFile \/ from_str(cache_file).parsed)

\* The file a reported duplicate names as its original.
OriginalOf(k) == dup_results[k].reason[2]

----------------------------------------------------------------------------
(* Claims about what the scanners report of one entry.                     *)

\* The scanners that have a minimum size, and the minimum of each.
ScannersWithMinimum ==
    {"Cache", "KnownCache", "GlobalCache", "BuildArtifacts", "Duplicates",
     "LargeFiles", "OldFiles", "Temp"}

MinimumOf(scanner, config) ==
    CASE scanner = "Cache" -> 1048576
      [] scanner = "KnownCache" -> 10485760
      [] scanner = "GlobalCache" -> 10485760
      [] scanner = "BuildArtifacts" -> 1048576
      [] scanner = "Duplicates" -> 1048576
      [] scanner = "LargeFiles" -> config.min_large_size_mb * 1048576
      [] scanner = "OldFiles" -> 10240
      [] scanner = "Temp" -> 1024

\* The size of an entry: a file's length, a directory's recursive sum.
SizeOfEntry(e) == IF e.is_dir THEN e.tree + e.lost ELSE e.len

\* Nothing but its size can keep the entry from being reported: it is not
\* excluded, nothing stands in its way, it is of the kind the scanner
\* looks at, and it is within the scanner's cap.
OtherwiseEligible(scanner, e, config) ==
    /\ ~is_excluded(config, e.path)
    /\ e.skip = "none"
    /\ e.accessed = OldStamp
    /\ e.modified = OldStamp
    /\ e.lost = 0
    /\ scanner \in {"Duplicates", "LargeFiles", "OldFiles"} => ~e.is_dir
    /\ scanner = "BuildArtifacts" => e.is_dir
    /\ scanner = "LargeFiles" => e.ahead < 100
    /\ scanner = "OldFiles" => e.ahead < 200

EntryReported == emit.results # <<>>

\* C18: for every scanner that has a minimum size, an otherwise eligible
\* entry of exactly the minimum size is reported, and nothing the scanner
\* reports is smaller than the minimum.
C18_MinimumSizeBoundary ==
    emit.scanner \in ScannersWithMinimum =>
        /\ \A k \in 1..Len(emit.results) :
              emit.results[k].size >= MinimumOf(emit.scanner, scan_config)
        /\ ( /\ OtherwiseEligible(emit.scanner, entry, scan_config)
             /\ SizeOfEntry(entry) = MinimumOf(emit.scanner, scan_config) )
           => EntryReported

\* The number of '*' in a pattern.
Stars(p) == Cardinality({i \in 1..Len(p) : p[i] = "*"})

\* The pattern occurs in the path as a substring.
OccursIn(p, s) ==
    \E i \in 0..(Len(s) - Len(p)) : \A j \in 1..Len(p) : s[i + j] = p[j]

\* The path starts with what is before a '*' of the pattern and ends with
\* what is after it.
GlobMatches(p, s) ==
    \E i \in 1..Len(p) :
        /\ p[i] = "*"
        /\ i - 1 <= Len(s)
        /\ Len(p) - i <= Len(s)
        /\ \A j \in 1..(i - 1) : s[j] = p[j]
        /\ \A j \in 1..(Len(p) - i) : s[Len(s) - j + 1] = p[Len(p) - j + 1]

MatchesSubstringOrGlob(p, s) ==
    OccursIn(p, s) \/ (Stars(p) = 1 /\ GlobMatches(p, s))

MatchesGlobElseSubstring(p, s) ==
    IF Stars(p) = 1 THEN GlobMatches(p, s) ELSE OccursIn(p, s)

\* C19 as stated: no scanner reports a path that a pattern of the
\* exclusion list matches, a pattern matching when it occurs in the path
\* as a substring or, having exactly one '*', when the path starts with the
\* part before the '*' and ends with the part after it.
C19_NoMatchedPathReported ==
    \A k \in 1..Len(emit.results) :
        \A n \in 1..Len(scan_config.excluded_paths) :
            ~MatchesSubstringOrGlob(scan_config.excluded_paths[n],
                                    emit.results[k].path)

\* C19: no scanner reports a path that a pattern of the exclusion list
\* matches, a pattern with exactly one '*' matching when the path starts
\* with the part before the '*' and ends with the part after it, and only
\* then, and every other pattern matching when it occurs in the path as a
\* substring.
C19_NoExcludedPathReported ==
    \A k \in 1..Len(emit.results) :
        \A n \in 1..Len(scan_config.excluded_paths) :
            ~MatchesGlobElseSubstring(scan_config.excluded_paths[n],
                                      emit.results[k].path)

\* A scanner has met an entry that only the second pattern of the list
\* matches, by prefix and suffix, and has reported nothing.
C19_Witness ==
    /\ emit.scanner \in ScannerKinds
    /\ emit.results = <<>>
    /\ Len(scan_config.excluded_paths) = 2
    /\ ~MatchesGlobElseSubstring(scan_config.excluded_paths[1], entry.path)
    /\ Stars(scan_config.excluded_paths[2]) = 1
    /\ Len(scan_config.excluded_paths[2]) > 1
    /\ MatchesGlobElseSubstring(scan_config.excluded_paths[2], entry.path)

\* C20: every CleanableFile a scanner produces with is_directory = true has
\* as its size the recursive sum of the sizes of the regular files the
\* directory contains.
C20_DirectorySizeIsRecursiveSum ==
    \A k \in 1..Len(emit.results) :
        emit.results[k].is_directory =>
            emit.results[k].size = SizeOfEntry(entry)

\* A file of the parent directory that counts for the use of the project
\* and is known to have been modified within the days.
ModifiedWithin(f, days) ==
    /\ f.kind \in {"project_file", "source"}
    /\ f.modified.known
    /\ UtcNow - f.modified.at < days

RecentlyUsed(e, config) ==
    \E f \in e.project : ModifiedWithin(f, config.project_recent_days)

BuildReported == emit.scanner = "BuildArtifacts" /\ emit.results # <<>>

----------------------------------------------------------------------------
(* Claims about the large files scanner over a whole walk (SpecLarge).     *)

RECURSIVE CountOf(_, _)
CountOf(runs, size) ==
    IF runs = <<>> THEN 0
    ELSE (IF Head(runs).size = size THEN Head(runs).count ELSE 0)
         + CountOf(Tail(runs), size)

RECURSIVE TotalOf(_)
TotalOf(runs) ==
    IF runs = <<>> THEN 0 ELSE Head(runs).count + TotalOf(Tail(runs))

\* The eligible files: those of at least the configured minimum size.
EligibleCount(size) ==
    IF size >= DefaultConfig.min_large_size_mb * 1048576
    THEN CountOf(large_walk, size) ELSE 0

\* The sizes of which an eligible file was not returned.
LeftOut ==
    { s \in LargeFileSizes : EligibleCount(s) > CountOf(large_results, s) }

\* C25: the large files scanner returns at most 100 entries, every
\* eligible file that is not returned is no larger than any returned file,
\* and the returned list is in non-increasing order of size.
C25_HundredLargest ==
    large_done =>
        /\ TotalOf(large_results) <= 100
        /\ \A s \in LargeFileSizes :
              CountOf(large_results, s) <= EligibleCount(s)
        /\ \A s \in LeftOut : \A k \in 1..Len(large_results) :
              s <= large_results[k].size
        /\ \A k \in 1..(Len(large_results) - 1) :
              large_results[k].size >= large_results[k + 1].size
        /\ TotalOf(large_results) < 100 => LeftOut = {}

\* C25's case: the walk meets 100 files of the minimum size, then one
\* file too small, then 99 files of twice the minimum; the 99 and one of
\* the 100 are returned.
C25_Witness ==
    /\ large_done
    /\ Len(large_walk) = 3
    /\ large_walk[1] = [size |-> 104857600, count |-> 100]
    /\ large_walk[2] = [size |-> 104857599, count |-> 1]
    /\ large_walk[3] = [size |-> 209715200, count |-> 99]
    /\ large_results = <<[size |-> 209715200, count |-> 99],
                         [size |-> 104857600, count |-> 1]>>

----------------------------------------------------------------------------
(* Claims about entries and time (SpecRecent).                             *)

----------------------------------------------------------------------------
(* Claims about the completion order of the scanners (SpecPar).            *)

\* What run_scan returns for the collected pairs rs (analyzer.rs:76-93).
ScanResultOf(rs) ==
    LET merged == Aggregate(rs, NoScan)
    IN  [merged EXCEPT !.files = Retain(@, {})]

----------------------------------------------------------------------------
(* Claims about the sanctioned roots themselves and about parent-directory *)
(* components (SpecClean).                                                 *)

\* C29: the home directory itself and each temp root itself (/tmp, /var/tmp,
\* /var/folders) is refused by delete_files; only paths strictly below them
\* are removed.
C29_RootsThemselvesRefused ==
    (CliHandled /\ (last.path \in TempRoots
                       \/ (home # NoHome /\ last.path = home)))
        => last.outcome = "refused"

\* The location a path denotes once every ".." has removed the component
\* before it (the root has no parent but itself).
RECURSIVE Resolved(_, _)
Resolved(path, acc) ==
    IF path = <<>> THEN acc
    ELSE IF Head(path) = ".."
         THEN Resolved(Tail(path),
                       IF Len(acc) > 1 THEN SubSeq(acc, 1, Len(acc) - 1)
                       ELSE acc)
         ELSE Resolved(Tail(path), Append(acc, Head(path)))

HasParentDir(path) == \E k \in 1..Len(path) : path[k] = ".."

\* C30: a path that begins with the home directory or a temp root as given
\* but that, once its ".." components are resolved, lies outside the
\* sanctioned roots or is a direct child of home that is not on the allow
\* list, is refused by delete_files.
C30_ParentDirComponentsRefused ==
    (/\ CliHandled
     /\ HasParentDir(last.path)
     /\ UnderHome(last.path) \/ UnderTempRoot(last.path))
        => LET target == Resolved(last.path, <<>>)
           IN  (\/ ~UnderHome(target) /\ ~UnderTempRoot(target)
                \/ /\ home # NoHome
                   /\ Parent(target) = home
                   /\ FileName(target) \notin AllowedHomeChildren)
                   => last.outcome = "refused"

============================================================================
